---- MODULE Spec2Model ----
(***************************************************************************)
(* A model of the CityData.org backend (src/server.js): the rate-limited   *)
(* GET /api handler, its dataset lookup (getLocationStats), its Overpass   *)
(* failover (fetchOverpass), the detached air-quality task and the final   *)
(* response; and of the data fetch of the frontend's App component         *)
(* (src/frontend/src/App.jsx).                                             *)
(*                                                                         *)
(* JavaScript values are modelled as follows.  A string is a tuple of      *)
(* one-character strings, so that trim, toLowerCase, split and Number are  *)
(* computed character by character.  undefined is the tuple Undefined,     *)
(* which is no string.  Objects are records; an HTTP exchange is a record  *)
(* saying whether the transport failed, whether the status is a success    *)
(* and what the body parses to.                                            *)
(***************************************************************************)
EXTENDS Integers, Sequences, FiniteSets, TLC

VARIABLES
    hits,             \* apiLimiter's store: requests counted per IP in the current window
    handled,          \* per IP, the requests of the current window that entered the handler
    pc,               \* the handler's position: the await it is suspended at
    req,              \* the request being served: [ip, city]
    response,         \* the HTTP response sent for it, NoResponse before
    calls,            \* the upstream calls the handler issued for it, in order
    aqiCalls,         \* the upstream calls the detached AQI task issued, in order
    city,             \* const [city] of the geocoding result
    weather,          \* const weather
    csvFile,          \* the rows of data/final_cities.csv, in file order
    stream,           \* the csv row stream: none, open, destroyed, ended, errored
    fileHandle,       \* the file stream under it and its descriptor: none, open, closed
    streamPos,        \* rows the stream has delivered so far
    resolved,         \* let resolved of getLocationStats
    examined,         \* rows whose fields the data listener has compared
    lookupOut,        \* the promise getLocationStats returned
    locationStats,    \* const locationStats
    aqiPc,            \* the detached AQI task's position
    current,          \* const current of getAQISection
    airQualityString, \* let airQualityString
    epIdx,            \* fetchOverpass: index of the endpoint the loop is at
    attempts,         \* per query, the endpoint attempts fetchOverpass has made
    infraData,        \* const infraData
    infrastructure,   \* const infrastructure
    waterData,        \* const waterData
    waterBodies,      \* const waterBodies
    wikipedia,        \* const wikipedia
    failed,           \* the failure that ended the request, NoFailure if none
    cityData,         \* App state: the report on display, null before the first one
    loading,          \* App state: the loading skeleton is shown
    error,            \* App state: the message of the error screen, null if none
    searchCity,       \* App state: the city the page is about
    toast,            \* App state: the notification on display, null if none
    retryCount,       \* App state: retries made for the current fetch
    requests,         \* calls of fetchCityData suspended at await axios.get
    timers            \* callbacks scheduled with setTimeout that have not run yet

vars == <<hits, handled, pc, req, response, calls, aqiCalls, city, weather, csvFile,
          stream, fileHandle, streamPos, resolved, examined, lookupOut, locationStats, aqiPc,
          current, airQualityString, epIdx, attempts, infraData, infrastructure,
          waterData, waterBodies, wikipedia, failed,
          cityData, loading, error, searchCity, toast, retryCount, requests, timers>>

\* The state of the server.
serverVars ==
    <<hits, handled, pc, req, response, calls, aqiCalls, city, weather, csvFile,
      stream, fileHandle, streamPos, resolved, examined, lookupOut, locationStats, aqiPc,
      current, airQualityString, epIdx, attempts, infraData, infrastructure,
      waterData, waterBodies, wikipedia, failed>>

(***************************************************************************)
(* Bounds of the model.                                                    *)
(***************************************************************************)
MaxRows == 2

\* Requests past the limit that one client sends within a window.
MaxOver == 2

\* Points in one Overpass result of the tally specification.
MaxElems == 3

(***************************************************************************)
(* Strings.                                                                *)
(***************************************************************************)
Undefined == <<"undefined">>

EmptyString == <<>>

IsSpace(c) == c = " "

IsDigit(c) == c \in {"0", "1", "2", "3", "4", "5", "6", "7", "8", "9"}

DigitValue(c) ==
    CASE c = "0" -> 0 [] c = "1" -> 1 [] c = "2" -> 2 [] c = "3" -> 3 [] c = "4" -> 4
      [] c = "5" -> 5 [] c = "6" -> 6 [] c = "7" -> 7 [] c = "8" -> 8 [] c = "9" -> 9

ToLowerChar(c) ==
    CASE c = "A" -> "a" [] c = "G" -> "g" [] c = "R" -> "r" [] c = "P" -> "p"
      [] c = "U" -> "u" [] c = "N" -> "n" [] c = "E" -> "e" [] c = "M" -> "m"
      [] c = "H" -> "h"
      [] OTHER -> c

toLowerCase(s) == [i \in 1..Len(s) |-> ToLowerChar(s[i])]

RECURSIVE TrimLeft(_)
TrimLeft(s) ==
    IF s # <<>> /\ IsSpace(Head(s)) THEN TrimLeft(Tail(s)) ELSE s

RECURSIVE TrimRight(_)
TrimRight(s) ==
    IF s # <<>> /\ IsSpace(s[Len(s)]) THEN TrimRight(SubSeq(s, 1, Len(s) - 1)) ELSE s

trim(s) == TrimRight(TrimLeft(s))

\* s.split(",")[0]: the text before the first comma, all of s when it has none.
RECURSIVE SplitFirst(_)
SplitFirst(s) ==
    IF s = <<>> \/ Head(s) = "," THEN <<>> ELSE <<Head(s)>> \o SplitFirst(Tail(s))

IsNumeric(s) ==
    /\ s # Undefined
    /\ \A i \in 1..Len(trim(s)) : IsDigit(trim(s)[i])

RECURSIVE DigitsValue(_)
DigitsValue(s) ==
    IF s = <<>> THEN 0 ELSE 10 * DigitsValue(SubSeq(s, 1, Len(s) - 1)) + DigitValue(s[Len(s)])

\* NaN is kept apart from every number the model's strings can spell (there is no
\* sign character), so it is written as a negative integer.
NaN == 0 - 1

\* Number(s) is a number when s, trimmed, is empty (0) or all digits, and NaN
\* otherwise; Number(undefined) is NaN.
Number(s) == IF IsNumeric(s) THEN DigitsValue(trim(s)) ELSE NaN

\* Number(x) with no fallback.
NumberOnly(s) == Number(s)

\* Number(x) || 0: NaN and 0 are falsy.
NumberOrZero(s) == IF Number(s) = NaN \/ Number(s) = 0 THEN 0 ELSE Number(s)

\* A validation that tests only for an absent parameter.
FalsyUndefinedOnly(s) == s = Undefined

\* !x for a query parameter: undefined and the empty string are falsy.
Falsy(s) == s = Undefined \/ s = EmptyString

(***************************************************************************)
(* Program constants.                                                      *)
(***************************************************************************)
\* apiLimiter: max requests per IP per window.
RateMax == 50

RateLimitMessage == "Too many requests. Please try again later."

OVERPASS_ENDPOINTS ==
    << "https://overpass-api.de/api/interpreter",
       "https://overpass.kumi.systems/api/interpreter",
       "https://overpass.nchc.org.tw/api/interpreter" >>

NoMatchMessage == "No matching state, district, or city found"

CityNotFoundMessage == "City not found"

CityRequiredMessage == "City is required"

AllEndpointsFailedMessage == "All Overpass endpoints failed"

\* The message of new Error().
EmptyErrorMessage == ""

(***************************************************************************)
(* Values a variable holds before the code assigns it.                     *)
(***************************************************************************)
Unset == [type |-> "undefined"]

NoResponse == [status |-> 0]

NoFailure == [step |-> "none"]

Pending == [state |-> "pending"]

Fulfilled(v) == [state |-> "fulfilled", value |-> v]

Rejected(m) == [state |-> "rejected", message |-> m]

\* A promise settles once: resolve and reject on a settled promise do nothing.
Settle(promise, outcome) == IF promise = Pending THEN outcome ELSE promise

(***************************************************************************)
(* getLocationStats: the data listener's match of one row.                 *)
(***************************************************************************)
\* row.Field?.trim().toLowerCase(): undefined when the row has no such column.
NormalizeField(f) == IF f = Undefined THEN Undefined ELSE toLowerCase(trim(f))

\* searchValue.trim().toLowerCase()
NormalizeQuery(searchValue) == toLowerCase(trim(searchValue))

\* A chain that tests the district before the city.
MatchedOnDistrictFirst(row, query) ==
    IF NormalizeField(row.District) = query THEN "district"
    ELSE IF NormalizeField(row.City) = query THEN "city"
    ELSE IF NormalizeField(row.State) = query THEN "state"
    ELSE "null"

\* The if / else if chain that sets matchedOn: "null" when no field matches.
MatchedOn(row, query) ==
    IF NormalizeField(row.City) = query THEN "city"
    ELSE IF NormalizeField(row.District) = query THEN "district"
    ELSE IF NormalizeField(row.State) = query THEN "state"
    ELSE "null"

\* The name the chain sets beside matchedOn.
MatchedName(row, query) ==
    IF NormalizeField(row.City) = query THEN row.City
    ELSE IF NormalizeField(row.District) = query THEN row.District
    ELSE row.State

\* A result that reads the population from the area column.
LocationStatsFromArea(row, query) ==
    [ population |-> NumberOrZero(row.Area),
      area       |-> NumberOrZero(row.Area),
      matchedOn  |-> MatchedOn(row, query),
      name       |-> MatchedName(row, query) ]

\* The object the listener resolves the promise with.
LocationStats(row, query) ==
    [ population |-> NumberOrZero(row.Population),
      area       |-> NumberOrZero(row.Area),
      matchedOn  |-> MatchedOn(row, query),
      name       |-> MatchedName(row, query) ]

\* city.display_name.split(",")[0].trim()
SearchValue(displayName) == trim(SplitFirst(displayName))

(***************************************************************************)
(* categorizeAQI and the two AQI sub-calls.                                *)
(***************************************************************************)
Null == [type |-> "null"]

Num(n) == [type |-> "number", value |-> n]

Str(s) == [type |-> "string", value |-> s]

\* A JSON array.
Array(items) == [type |-> "array", items |-> items]

\* {}: an object with no keys.
EmptyObject == [k \in {} |-> k]

\* The value the relational operators compare: a string is converted by Number.
ToNumber(v) == IF v.type = "string" THEN Number(v.value) ELSE v.value

\* Thresholds that belong to the bucket above them.
categorizeAQIExclusive(aqi) ==
    IF aqi.type \in {"null", "undefined"} THEN "No data"
    ELSE IF ToNumber(aqi) = NaN THEN "Hazardous"
    ELSE IF ToNumber(aqi) < 50 THEN "Good"
    ELSE IF ToNumber(aqi) < 100 THEN "Moderate"
    ELSE IF ToNumber(aqi) < 150 THEN "Unhealthy for Sensitive Groups"
    ELSE IF ToNumber(aqi) < 200 THEN "Unhealthy"
    ELSE IF ToNumber(aqi) < 300 THEN "Very Unhealthy"
    ELSE "Hazardous"

\* Every comparison with NaN is false, so a value that converts to NaN falls
\* through to the last return.
categorizeAQI(aqi) ==
    IF aqi.type \in {"null", "undefined"} THEN "No data"
    ELSE IF ToNumber(aqi) = NaN THEN "Hazardous"
    ELSE IF ToNumber(aqi) <= 50 THEN "Good"
    ELSE IF ToNumber(aqi) <= 100 THEN "Moderate"
    ELSE IF ToNumber(aqi) <= 150 THEN "Unhealthy for Sensitive Groups"
    ELSE IF ToNumber(aqi) <= 200 THEN "Unhealthy"
    ELSE IF ToNumber(aqi) <= 300 THEN "Very Unhealthy"
    ELSE "Hazardous"

NoDataReading ==
    [ aqi |-> Null, category |-> "No data", pollutants |-> EmptyObject,
      dominentPollutant |-> Null, time |-> Null ]

\* An HTTP exchange: the transport failed, or a response arrived whose status is
\* a success or not and whose body parses to json (BadJson: res.json() throws).
NetworkError == [net |-> "error", message |-> "fetch failed"]

BadJson == [type |-> "unparsable"]

BadJsonMessage == "Unexpected token < in JSON"

HttpOk(json) == [net |-> "ok", ok |-> TRUE, status |-> 200, text |-> "", json |-> json]

HttpError(status, text) ==
    [net |-> "ok", ok |-> FALSE, status |-> status, text |-> text, json |-> BadJson]

\* Whether await fetch(url) followed by await res.json() threw or returned.
FetchOutcome(ex) == IF ex.net = "error" \/ ex.json = BadJson THEN "threw" ELSE "returned"

\* iaqi.x?.v ?? null
PollutantValue(entry) == IF entry.type = "undefined" THEN Null ELSE entry.v

\* x || null for a value that is a string when present.
OrNull(v) == IF v.type = "undefined" THEN Null ELSE v

\* A catch block that hands the error on to the caller.
getCurrentAQIRethrows(ex) ==
    IF ex.net = "error" THEN Rejected(ex.message)
    ELSE IF ex.json = BadJson THEN Rejected(BadJsonMessage)
    ELSE IF ex.json.status # "ok" \/ ex.json.data.type = "undefined" THEN NoDataReading
    ELSE [ aqi |-> ex.json.data.aqi,
           category |-> categorizeAQI(ex.json.data.aqi),
           pollutants |->
               [ pm25 |-> PollutantValue(ex.json.data.iaqi.pm25),
                 pm10 |-> PollutantValue(ex.json.data.iaqi.pm10),
                 no2  |-> PollutantValue(ex.json.data.iaqi.no2),
                 so2  |-> PollutantValue(ex.json.data.iaqi.so2),
                 o3   |-> PollutantValue(ex.json.data.iaqi.o3),
                 co   |-> PollutantValue(ex.json.data.iaqi.co) ],
           dominentPollutant |-> OrNull(ex.json.data.dominentpol),
           time |-> OrNull(ex.json.data.time) ]

getCurrentAQI(ex) ==
    IF ex.net = "error" \/ ex.json = BadJson THEN NoDataReading
    ELSE IF ex.json.status # "ok" \/ ex.json.data.type = "undefined" THEN NoDataReading
    ELSE [ aqi |-> ex.json.data.aqi,
           category |-> categorizeAQI(ex.json.data.aqi),
           pollutants |->
               [ pm25 |-> PollutantValue(ex.json.data.iaqi.pm25),
                 pm10 |-> PollutantValue(ex.json.data.iaqi.pm10),
                 no2  |-> PollutantValue(ex.json.data.iaqi.no2),
                 so2  |-> PollutantValue(ex.json.data.iaqi.so2),
                 o3   |-> PollutantValue(ex.json.data.iaqi.o3),
                 co   |-> PollutantValue(ex.json.data.iaqi.co) ],
           dominentPollutant |-> OrNull(ex.json.data.dominentpol),
           time |-> OrNull(ex.json.data.time) ]

\* The entries in the reverse of the provider's order.
getAQIHistoryNewestFirst(ex) ==
    IF ex.net = "error" \/ ex.json = BadJson THEN <<>>
    ELSE IF ex.json.hourly.type = "undefined" THEN <<>>
    ELSE IF ex.json.hourly.pm2_5.type = "undefined" THEN <<>>
    ELSE LET n == Len(ex.json.hourly.pm2_5.items)
         IN  [ idx \in 1..n |->
                 [ timestamp |-> ex.json.hourly.time.items[n + 1 - idx],
                   pm25 |-> ex.json.hourly.pm2_5.items[n + 1 - idx],
                   aqi |-> categorizeAQI(ex.json.hourly.pm2_5.items[n + 1 - idx]) ] ]

getAQIHistory(ex) ==
    IF ex.net = "error" \/ ex.json = BadJson THEN <<>>
    ELSE IF ex.json.hourly.type = "undefined" THEN <<>>
    ELSE IF ex.json.hourly.pm2_5.type = "undefined" THEN <<>>
    ELSE [ idx \in 1..Len(ex.json.hourly.pm2_5.items) |->
             [ timestamp |-> ex.json.hourly.time.items[idx],
               pm25 |-> ex.json.hourly.pm2_5.items[idx],
               aqi |-> categorizeAQI(ex.json.hourly.pm2_5.items[idx]) ] ]

\* let airQualityString = ""
InitialAirQuality == [type |-> "string", value |-> ""]

\* A section that has a history only when it has a current reading.
AQISectionCoupled(cur, history) ==
    [ type |-> "object", currentAQI |-> cur,
      history |-> IF cur.aqi = Null THEN <<>> ELSE history ]

\* The object getAQISection returns.
AQISection(cur, history) == [type |-> "object", currentAQI |-> cur, history |-> history]

(***************************************************************************)
(* safeFetch.                                                              *)
(***************************************************************************)
Threw(m) == [threw |-> TRUE, message |-> m]

Returned(json) == [threw |-> FALSE, json |-> json]

safeFetch(ex) ==
    IF ex.net = "error" THEN Threw(ex.message)
    ELSE IF ~ex.ok
        THEN Threw("Fetch failed (" \o ToString(ex.status) \o "): " \o ex.text)
    ELSE IF ex.json = BadJson THEN Threw(BadJsonMessage)
    ELSE Returned(ex.json)

(***************************************************************************)
(* The tallies of the Overpass elements.                                   *)
(***************************************************************************)
Absent == "<absent>"

\* el.tags || {}
TagsOf(el) ==
    IF el.tags = Unset
    THEN [ name |-> Absent, amenity |-> Absent, railway |-> Absent, station |-> Absent,
           public_transport |-> Absent, subway |-> Absent, waterway |-> Absent ]
    ELSE el.tags

\* A tally that lets every point through.
UnnamedNever(t) == FALSE

\* !t.name
Unnamed(t) == t.name = Absent \/ t.name = ""

Range(seq) == {seq[i] : i \in 1..Len(seq)}

\* A list that takes every value it is given.
ListAdd(set, x) == Append(set, x)

\* Set.prototype.add: a Set keeps insertion order and holds a value once.
SetAdd(set, x) == IF x \in Range(set) THEN set ELSE Append(set, x)

AddIf(cond, set, x) == IF cond THEN SetAdd(set, x) ELSE set

\* A railway rule that does not look at the station tag.
IsRailwayAnyStation(t) == t.railway = "station"

IsRailway(t) == t.railway = "station" /\ t.station # "subway"

IsMetro(t) ==
    \/ t.station = "subway"
    \/ t.railway = "subway_entrance"
    \/ (t.public_transport = "station" /\ t.subway = "yes")

EmptyInfra ==
    [ hospitals |-> <<>>, schools |-> <<>>, colleges |-> <<>>,
      railwayStations |-> <<>>, metroStations |-> <<>> ]

\* The body of infraData.elements.forEach for one element.
InfraStep(infra, el) ==
    LET t == TagsOf(el) IN
    IF Unnamed(t) THEN infra
    ELSE [ hospitals |-> AddIf(t.amenity = "hospital", infra.hospitals, t.name),
           schools |-> AddIf(t.amenity = "school", infra.schools, t.name),
           colleges |-> AddIf(t.amenity = "college", infra.colleges, t.name),
           railwayStations |-> AddIf(IsRailway(t), infra.railwayStations, t.name),
           metroStations |-> AddIf(IsMetro(t), infra.metroStations, t.name) ]

RECURSIVE InfraFold(_, _)
InfraFold(infra, elements) ==
    IF elements = <<>> THEN infra
    ELSE InfraFold(InfraStep(infra, Head(elements)), Tail(elements))

\* const infrastructure = { counts, names }
Infrastructure(elements) ==
    LET infra == InfraFold(EmptyInfra, elements) IN
    [ hospitals |-> Len(infra.hospitals),
      schools |-> Len(infra.schools),
      colleges |-> Len(infra.colleges),
      railwayStations |-> Len(infra.railwayStations),
      metroStations |-> Len(infra.metroStations),
      names |-> infra ]

\* A tally that takes every way with a waterway tag for a river.
WaterStepAnyWaterway(water, el) ==
    LET t == TagsOf(el) IN
    IF Unnamed(t) THEN water
    ELSE IF t.waterway # Absent
        THEN [water EXCEPT !.rivers = SetAdd(water.rivers, t.name)]
    ELSE [water EXCEPT !.others = SetAdd(water.others, t.name)]

\* The body of waterData.elements.forEach for one element.
WaterStep(water, el) ==
    LET t == TagsOf(el) IN
    IF Unnamed(t) THEN water
    ELSE IF t.waterway = "river"
        THEN [water EXCEPT !.rivers = SetAdd(water.rivers, t.name)]
    ELSE [water EXCEPT !.others = SetAdd(water.others, t.name)]

RECURSIVE WaterFold(_, _)
WaterFold(water, elements) ==
    IF elements = <<>> THEN water
    ELSE WaterFold(WaterStep(water, Head(elements)), Tail(elements))

\* const waterBodies = { rivers, otherWaterBodies }
WaterBodies(elements) ==
    LET water == WaterFold([rivers |-> <<>>, others |-> <<>>], elements) IN
    [ rivers |-> [count |-> Len(water.rivers), names |-> water.rivers],
      otherWaterBodies |-> [count |-> Len(water.others), names |-> water.others] ]

(***************************************************************************)
(* The inputs the model draws from: clients, query strings, upstream       *)
(* answers and dataset rows.                                               *)
(***************************************************************************)
IPs == {"10.0.0.1", "10.0.0.2"}

sAgra == <<"A", "g", "r", "a">>

sPune == <<"P", "u", "n", "e">>

sUP == <<"U", "P">>

sMH == <<"M", "H">>

sMau == <<"M", "a", "u">>

\* The city query parameter: absent, empty, or a name.
CityParams == {Undefined, EmptyString, sAgra}

\* Places a geocoder result names: "Agra, UP", "Pune , MH" and "UP".
PlaceAgra ==
    [ display_name |-> sAgra \o <<",", " ">> \o sUP,
      lat |-> <<"2", "7">>, lon |-> <<"7", "8">> ]

PlacePune ==
    [ display_name |-> sPune \o <<" ", ",", " ">> \o sMH,
      lat |-> <<"1", "8">>, lon |-> <<"7", "3">> ]

PlaceUP == [ display_name |-> sUP, lat |-> <<"2", "6">>, lon |-> <<"8", "0">> ]

Places == {PlaceAgra, PlacePune, PlaceUP}

GeoAnswers ==
    {NetworkError, HttpError(503, "busy"), HttpOk(Array(<<>>))}
        \cup {HttpOk(Array(<<p>>)) : p \in {PlaceAgra, PlacePune}}

WeatherPayload ==
    [ current_weather |-> [temperature |-> 31],
      daily |-> [temperature_2m_max |-> <<35>>, temperature_2m_min |-> <<24>>,
                 precipitation_sum |-> <<0>>] ]

WeatherAnswers == {NetworkError, HttpOk(WeatherPayload)}

\* Rows of the dataset.  RowMalformed has lost its first columns.
RowAgra ==
    [ City |-> sAgra, District |-> sAgra, State |-> sUP,
      Population |-> <<"1", "5", "8", "5">>, Area |-> <<"1", "8", "8">> ]

RowAgraSpaced ==
    [ City |-> <<" ", "a", "G", "R", "A", " ">>, District |-> sPune, State |-> sMH,
      Population |-> <<" ", "1", "2">>, Area |-> <<>> ]

RowPune ==
    [ City |-> sPune, District |-> sAgra, State |-> sUP,
      Population |-> <<"x", "1">>, Area |-> <<"4">> ]

RowMalformed ==
    [ City |-> Undefined, District |-> Undefined, State |-> sUP,
      Population |-> Undefined, Area |-> Undefined ]

RowMau ==
    [ City |-> sMau, District |-> sMau, State |-> sMH,
      Population |-> <<"7">>, Area |-> <<"0">> ]

Rows == {RowAgra, RowAgraSpaced, RowPune, RowMalformed, RowMau}

RECURSIVE SeqsUpTo(_, _)
SeqsUpTo(S, n) ==
    IF n = 0 THEN {<<>>}
    ELSE SeqsUpTo(S, n - 1)
           \cup {Append(f, r) : f \in {g \in SeqsUpTo(S, n - 1) : Len(g) = n - 1}, r \in S}

\* The dataset files of the lookup specification: every file of up to MaxRows rows.
Files == SeqsUpTo(Rows, MaxRows)

\* The dataset file of the request specifications: no row for Pune, a match for
\* Agra in the second row, a malformed row after it.
DeployedFile == <<RowMau, RowAgra, RowMalformed>>

WaqiOk(aqi) ==
    HttpOk([ status |-> "ok",
             data |-> [ type |-> "object", aqi |-> aqi,
                        iaqi |-> [ pm25 |-> [type |-> "object", v |-> Num(160)],
                                   pm10 |-> [type |-> "object", v |-> Num(90)],
                                   no2 |-> Unset, so2 |-> Unset, o3 |-> Unset,
                                   co |-> Unset ],
                        dominentpol |-> Str("pm25"),
                        time |-> Str("2026-01-01 10:00:00") ] ])

WaqiNoStation == HttpOk([status |-> "error", data |-> Str("Unknown station")])

\* A feed that reports ok and carries no data member.
WaqiNoData == HttpOk([status |-> "ok", data |-> Unset])

CurrentAQIAnswers == {NetworkError, WaqiNoStation, WaqiOk(Num(160))}

HistoryOk ==
    HttpOk([ hourly |-> [ type |-> "object",
                          time |-> Array(<<"2026-01-01T00:00", "2026-01-01T01:00">>),
                          pm2_5 |-> Array(<<Num(42), Null>>) ] ])

HistoryNoSeries == HttpOk([hourly |-> Unset])

\* An hourly object that has times and no pm2_5 series.
HistoryNoSamples ==
    HttpOk([ hourly |-> [ type |-> "object", time |-> Array(<<"2026-01-01T00:00">>),
                          pm2_5 |-> Unset ] ])

AQIHistoryAnswers == {NetworkError, HistoryNoSeries, HistoryOk}

\* AQI and PM2.5 figures on both sides of every threshold, and null.
AQIValues ==
    {Null} \cup {Num(v) : v \in {0, 49, 50, 51, 99, 100, 101, 150, 151, 200, 201, 300, 301, 999}}

\* A history of two hourly samples.
HistoryOfTwo(a, b) ==
    HttpOk([ hourly |-> [ type |-> "object",
                          time |-> Array(<<"2026-01-01T00:00", "2026-01-01T01:00">>),
                          pm2_5 |-> Array(<<a, b>>) ] ])

Tags(name, amenity, railway, station, public_transport, subway, waterway) ==
    [ tags |-> [ name |-> name, amenity |-> amenity, railway |-> railway,
                 station |-> station, public_transport |-> public_transport,
                 subway |-> subway, waterway |-> waterway ] ]

InfraElements ==
    << Tags("City Hospital", "hospital", Absent, Absent, Absent, Absent, Absent),
       Tags("City Hospital", "hospital", Absent, Absent, Absent, Absent, Absent),
       Tags("city hospital", "hospital", Absent, Absent, Absent, Absent, Absent),
       Tags(Absent, "school", Absent, Absent, Absent, Absent, Absent),
       Tags("Agra Cantt", Absent, "station", Absent, Absent, Absent, Absent),
       Tags("Taj Metro", Absent, "station", "subway", Absent, Absent, Absent),
       Tags("Taj Metro", Absent, "subway_entrance", Absent, Absent, Absent, Absent),
       [tags |-> Unset] >>

InfraPayloads == {[elements |-> InfraElements], [elements |-> <<>>]}

\* The points of the tally specification: every tag combination the rules tell
\* apart, names that repeat, names that differ in case only, points with no
\* name and a point with no tags.
TallyElements ==
    { Tags("City Hospital", "hospital", Absent, Absent, Absent, Absent, Absent),
      Tags("city hospital", "hospital", Absent, Absent, Absent, Absent, Absent),
      Tags(Absent, "hospital", Absent, Absent, Absent, Absent, Absent),
      Tags("DPS", "school", Absent, Absent, Absent, Absent, Absent),
      Tags("City Hospital", "college", Absent, Absent, Absent, Absent, Absent),
      Tags("Railway Hospital", "hospital", "station", Absent, Absent, Absent, Absent),
      Tags("Taj Metro", Absent, "station", "subway", Absent, Absent, Absent),
      Tags("Gate 1", Absent, "subway_entrance", Absent, Absent, Absent, Absent),
      Tags("Taj East", Absent, Absent, Absent, "station", "yes", Absent),
      Tags("Bus Stand", Absent, Absent, Absent, "station", "no", Absent),
      [tags |-> Unset] }

WaterElements ==
    << Tags("Yamuna", Absent, Absent, Absent, Absent, Absent, "river"),
       Tags("Yamuna", Absent, Absent, Absent, Absent, Absent, "river"),
       Tags("Keetham Lake", Absent, Absent, Absent, Absent, Absent, Absent),
       Tags("Agra Canal", Absent, Absent, Absent, Absent, Absent, "canal"),
       Tags(Absent, Absent, Absent, Absent, Absent, Absent, "stream") >>

WaterPayloads == {[elements |-> WaterElements], [elements |-> <<>>]}

\* The ways of the water tally specification: rivers, other waterways, waters
\* with no waterway tag, a name that a river and a lake share, names that differ
\* in case only, ways with no name or an empty name and a way with no tags.
WaterTallyElements ==
    { Tags("Yamuna", Absent, Absent, Absent, Absent, Absent, "river"),
      Tags("yamuna", Absent, Absent, Absent, Absent, Absent, "river"),
      Tags("Yamuna", Absent, Absent, Absent, Absent, Absent, Absent),
      Tags("Keetham Lake", Absent, Absent, Absent, Absent, Absent, Absent),
      Tags("Agra Canal", Absent, Absent, Absent, Absent, Absent, "canal"),
      Tags(Absent, Absent, Absent, Absent, Absent, Absent, "river"),
      Tags("", Absent, Absent, Absent, Absent, Absent, "river"),
      [tags |-> Unset] }

\* What one Overpass endpoint can answer.
OverpassFailures == {NetworkError, HttpError(429, "rate_limited"), HttpOk(BadJson)}

WikiPayload == [extract |-> "Agra is a city", thumbnail |-> Unset]

WikiAnswers == {HttpError(404, "Not found."), HttpOk(WikiPayload)}

(***************************************************************************)
(* The request: apiLimiter, then the handler up to its first await.        *)
(***************************************************************************)
\* A limiter that compares the count before counting the request.
LimiterAllowsOneMore(totalHits) == totalHits <= RateMax + 1

\* express-rate-limit counts the request, then rejects it when the count of the
\* window exceeds max.
LimiterAllows(totalHits) == totalHits <= RateMax

\* A latitude read from the longitude field.
LatFromLon == Number(city.lon)

\* const lat = Number(city.lat), const lon = Number(city.lon)
lat == Number(city.lat)

lon == Number(city.lon)

\* The geocoding call; found is what it came back with: nothing yet, a failure,
\* or the array of places.
NominatimCall(cityName) == [svc |-> "nominatim", q |-> cityName, found |-> Unset]

\* What await safeFetch(nominatimURL) gave: the parsed array, or a failure.
GeocodeAnswer(ex) == IF safeFetch(ex).threw THEN [type |-> "error"] ELSE safeFetch(ex).json

\* A destructuring that puts a default place where the array is empty.
FirstOrDefault(items) == IF items = <<>> THEN PlaceUP ELSE items[1]

\* const [city] = array: the first element, undefined when the array is empty.
FirstOf(items) == IF items = <<>> THEN Unset ELSE items[1]

\* A loop that starts at the endpoint the previous call of fetchOverpass ended at.
LoopResumes(previous) == IF previous = 0 THEN 1 ELSE previous

\* for (const url of OVERPASS_ENDPOINTS): fetchOverpass keeps nothing between
\* calls, so the loop of every call starts at the first endpoint, whatever
\* endpoint the previous call ended at.
LoopStart(previous) == 1

WeatherCall(la, lo) == [svc |-> "open-meteo", lat |-> la, lon |-> lo]

DatasetCall(searchValue) == [svc |-> "dataset", q |-> searchValue]

\* The two calls of the AQI task; answer is the exchange the call ended with.
WaqiCall(la, lo) ==
    [svc |-> "waqi", lat |-> la, lon |-> lo, outcome |-> "pending", answer |-> Unset]

HistoryCall(la, lo) ==
    [svc |-> "air-quality-history", lat |-> la, lon |-> lo, answer |-> Unset]

OverpassCall(idx, query, la, lo) ==
    [svc |-> "overpass", url |-> OVERPASS_ENDPOINTS[idx], query |-> query,
     lat |-> la, lon |-> lo]

WikiCall(cityName) == [svc |-> "wikipedia", q |-> cityName]

\* A catch block after which the handler goes on waiting at the step that failed.
FailAndGoOn(step, message) ==
    /\ response' = [status |-> 500, body |-> [error |-> message]]
    /\ pc' = pc
    /\ failed' = [step |-> step, message |-> message]

\* The catch block: res.status(500).json({ error: err.message }).
Fail(step, message) ==
    /\ response' = [status |-> 500, body |-> [error |-> message]]
    /\ pc' = "done"
    /\ failed' = [step |-> step, message |-> message]

\* The state of one request before the handler has run.
FreshRequest ==
    /\ aqiCalls' = <<>>
    /\ city' = Unset
    /\ weather' = Unset
    /\ stream' = "none"
    /\ fileHandle' = "none"
    /\ streamPos' = 0
    /\ resolved' = FALSE
    /\ examined' = 0
    /\ lookupOut' = Unset
    /\ locationStats' = Unset
    /\ aqiPc' = "none"
    /\ current' = Unset
    /\ airQualityString' = Unset
    /\ epIdx' = 0
    /\ attempts' = [infra |-> <<>>, water |-> <<>>]
    /\ infraData' = Unset
    /\ infrastructure' = Unset
    /\ waterData' = Unset
    /\ waterBodies' = Unset
    /\ wikipedia' = Unset
    /\ failed' = NoFailure

\* A route whose limiter sits behind the validation of the city parameter.
ArriveValidatedFirst(ip, cityName) ==
    /\ hits[ip] < RateMax + MaxOver
    /\ req' = [ip |-> ip, city |-> cityName]
    /\ FreshRequest
    /\ UNCHANGED <<csvFile, cityData, loading, error, searchCity, toast, retryCount, requests, timers>>
    /\ IF Falsy(cityName)
       THEN /\ response' = [status |-> 400, body |-> [error |-> CityRequiredMessage]]
            /\ pc' = "done"
            /\ calls' = <<>>
            /\ UNCHANGED <<hits, handled>>
       ELSE /\ hits' = [hits EXCEPT ![ip] = @ + 1]
            /\ IF ~LimiterAllows(hits[ip] + 1)
               THEN /\ response' = [status |-> 429, body |-> [error |-> RateLimitMessage]]
                    /\ pc' = "done"
                    /\ calls' = <<>>
                    /\ UNCHANGED handled
               ELSE /\ handled' = [handled EXCEPT ![ip] = @ + 1]
                    /\ response' = NoResponse
                    /\ pc' = "geocode"
                    /\ calls' = <<NominatimCall(cityName)>>

\* app.get("/api", apiLimiter, handler) for a request of ip with query parameter
\* city = cityName.
Arrive(ip, cityName) ==
    /\ hits[ip] < RateMax + MaxOver
    /\ hits' = [hits EXCEPT ![ip] = @ + 1]
    /\ req' = [ip |-> ip, city |-> cityName]
    /\ FreshRequest
    /\ UNCHANGED <<csvFile, cityData, loading, error, searchCity, toast, retryCount, requests, timers>>
    /\ IF ~LimiterAllows(hits[ip] + 1)
       THEN /\ response' = [status |-> 429, body |-> [error |-> RateLimitMessage]]
            /\ pc' = "done"
            /\ calls' = <<>>
            /\ UNCHANGED handled
       ELSE /\ handled' = [handled EXCEPT ![ip] = @ + 1]
            /\ IF Falsy(cityName)
               THEN /\ response' = [status |-> 400, body |-> [error |-> CityRequiredMessage]]
                    /\ pc' = "done"
                    /\ calls' = <<>>
               ELSE /\ response' = NoResponse
                    /\ pc' = "geocode"
                    /\ calls' = <<NominatimCall(cityName)>>

\* A request arrives at the idle server.
ApiGet(ip, cityName) ==
    /\ pc = "idle"
    /\ Arrive(ip, cityName)

\* A request arrives after the previous one has been answered and its AQI task
\* has ended.
ApiGetNext(ip, cityName) ==
    /\ pc = "done"
    /\ aqiPc \in {"none", "done"}
    /\ Arrive(ip, cityName)

\* The limiter's window of ip ends: its count starts again.
WindowExpires(ip) ==
    /\ hits[ip] > 0
    /\ pc \in {"idle", "done"}
    /\ hits' = [hits EXCEPT ![ip] = 0]
    /\ handled' = [handled EXCEPT ![ip] = 0]
    /\ UNCHANGED <<pc, req, response, calls, aqiCalls, city, weather, csvFile, stream, fileHandle,
                   streamPos, resolved, examined, lookupOut, locationStats, aqiPc,
                   current, airQualityString, epIdx, attempts, infraData, infrastructure,
                   waterData, waterBodies, wikipedia, failed,
                   cityData, loading, error, searchCity, toast, retryCount, requests, timers>>

(***************************************************************************)
(* The handler, one action per await.                                      *)
(***************************************************************************)
\* const [city] = await safeFetch(nominatimURL), then the weather fetch is issued.
GeocodeReturns(ex) ==
    /\ pc = "geocode"
    /\ IF safeFetch(ex).threw
       THEN /\ Fail("geocode", safeFetch(ex).message)
            /\ calls' = [calls EXCEPT ![1].found = GeocodeAnswer(ex)]
            /\ UNCHANGED city
       ELSE IF FirstOf(safeFetch(ex).json.items) = Unset
       THEN /\ Fail("geocode", CityNotFoundMessage)
            /\ calls' = [calls EXCEPT ![1].found = GeocodeAnswer(ex)]
            /\ UNCHANGED city
       ELSE /\ city' = FirstOf(safeFetch(ex).json.items)
            /\ calls' = Append([calls EXCEPT ![1].found = GeocodeAnswer(ex)],
                               WeatherCall(lat', lon'))
            /\ pc' = "weather"
            /\ UNCHANGED <<response, failed>>
    /\ UNCHANGED <<hits, handled, req, aqiCalls, weather, csvFile, stream, fileHandle, streamPos,
                   resolved, examined, lookupOut, locationStats, aqiPc, current,
                   airQualityString, epIdx, attempts, infraData, infrastructure, waterData, waterBodies,
                   wikipedia,
                   cityData, loading, error, searchCity, toast, retryCount, requests, timers>>

\* const weather = await safeFetch(weatherURL), then getLocationStats opens the
\* dataset stream.
WeatherReturns(ex) ==
    /\ pc = "weather"
    /\ IF safeFetch(ex).threw
       THEN /\ Fail("weather", safeFetch(ex).message)
            /\ UNCHANGED <<weather, calls, stream, fileHandle, lookupOut>>
       ELSE /\ weather' = safeFetch(ex).json
            /\ calls' = Append(calls, DatasetCall(SearchValue(city.display_name)))
            /\ stream' = "open"
            /\ fileHandle' = "open"
            /\ lookupOut' = Pending
            /\ pc' = "lookup"
            /\ UNCHANGED <<response, failed>>
    /\ UNCHANGED <<hits, handled, req, aqiCalls, city, csvFile, streamPos, resolved,
                   examined, locationStats, aqiPc, current, airQualityString, epIdx,
                   attempts, infraData, infrastructure, waterData, waterBodies, wikipedia,
                   cityData, loading, error, searchCity, toast, retryCount, requests, timers>>

(***************************************************************************)
(* getLocationStats: the listeners of the csv row stream.                  *)
(***************************************************************************)
CsvErrorMessage == "Row length does not match headers"

SourceErrorMessage == "ENOENT: no such file or directory, open 'data/final_cities.csv'"

\* const query = searchValue.trim().toLowerCase()
query == NormalizeQuery(SearchValue(city.display_name))

\* A listener without the resolved guard.
ListenerNeverReturnsEarly == FALSE

\* if (resolved) return;
ListenerReturnsEarly == resolved

\* stream.on("data", ...): the stream delivers its next row.  destroy() stops the
\* file from being read further; rows the parser has already cut from the chunk
\* in hand may still be delivered before the handler resumes.  stream is what
\* pipe() returned, the csv parser: destroying it unpipes the file stream, which
\* nothing destroys, so its descriptor stays open.
StreamData ==
    /\ pc = "lookup"
    /\ stream \in {"open", "destroyed"}
    /\ streamPos < Len(csvFile)
    /\ streamPos' = streamPos + 1
    /\ IF ListenerReturnsEarly
       THEN UNCHANGED <<resolved, stream, lookupOut, examined>>
       ELSE /\ examined' = examined + 1
            /\ IF MatchedOn(csvFile[streamPos + 1], query) # "null"
               THEN /\ resolved' = TRUE
                    /\ stream' = "destroyed"
                    /\ lookupOut' =
                         Settle(lookupOut,
                                Fulfilled(LocationStats(csvFile[streamPos + 1], query)))
               ELSE UNCHANGED <<resolved, stream, lookupOut>>
    /\ UNCHANGED <<hits, handled, pc, req, response, calls, aqiCalls, city, weather,
                   csvFile, fileHandle, locationStats, aqiPc, current, airQualityString, epIdx,
                   attempts, infraData, infrastructure, waterData, waterBodies, wikipedia, failed,
                   cityData, loading, error, searchCity, toast, retryCount, requests, timers>>

\* An end listener that does not reject.
StreamEndSilent ==
    /\ pc = "lookup"
    /\ stream = "open"
    /\ streamPos = Len(csvFile)
    /\ stream' = "ended"
    /\ fileHandle' = "closed"
    /\ UNCHANGED <<hits, handled, pc, req, response, calls, aqiCalls, city, weather,
                   csvFile, streamPos, resolved, examined, lookupOut, locationStats,
                   aqiPc, current, airQualityString, epIdx, attempts, infraData,
                   infrastructure, waterData, waterBodies, wikipedia, failed,
                   cityData, loading, error, searchCity, toast, retryCount, requests, timers>>

\* stream.on("end", ...): every row has been delivered.  The file stream ended
\* before the parser did, and a file stream closes its descriptor at its end.
StreamEnd ==
    /\ pc = "lookup"
    /\ stream = "open"
    /\ streamPos = Len(csvFile)
    /\ stream' = "ended"
    /\ fileHandle' = "closed"
    /\ lookupOut' = IF ~resolved THEN Settle(lookupOut, Rejected(NoMatchMessage))
                    ELSE lookupOut
    /\ UNCHANGED <<hits, handled, pc, req, response, calls, aqiCalls, city, weather,
                   csvFile, streamPos, resolved, examined, locationStats, aqiPc, current,
                   airQualityString, epIdx, attempts, infraData, infrastructure, waterData, waterBodies,
                   wikipedia, failed,
                   cityData, loading, error, searchCity, toast, retryCount, requests, timers>>

\* stream.on("error", reject): the csv parser fails.  The parser is destroyed by
\* its error and the file stream is unpiped from it; no listener destroys the file
\* stream.
StreamError ==
    /\ pc = "lookup"
    /\ stream = "open"
    /\ stream' = "errored"
    /\ lookupOut' = Settle(lookupOut, Rejected(CsvErrorMessage))
    /\ UNCHANGED <<hits, handled, pc, req, response, calls, aqiCalls, city, weather,
                   csvFile, fileHandle, streamPos, resolved, examined, locationStats, aqiPc, current,
                   airQualityString, epIdx, attempts, infraData, infrastructure, waterData, waterBodies,
                   wikipedia, failed,
                   cityData, loading, error, searchCity, toast, retryCount, requests, timers>>

\* The file stream under the parser fails (the file cannot be opened or read).
\* pipe() hands no error on and the file stream has no error listener, so the
\* error event is unhandled: the process ends and no response is sent.
SourceError ==
    /\ pc = "lookup"
    /\ stream = "open"
    /\ lookupOut = Pending
    /\ pc' = "crashed"
    /\ fileHandle' = "closed"
    /\ failed' = [step |-> "dataset", message |-> SourceErrorMessage]
    /\ UNCHANGED <<hits, handled, req, response, calls, aqiCalls, city, weather, csvFile,
                   stream, streamPos, resolved, examined, lookupOut, locationStats,
                   aqiPc, current, airQualityString, epIdx, attempts, infraData, infrastructure,
                   waterData, waterBodies, wikipedia,
                   cityData, loading, error, searchCity, toast, retryCount, requests, timers>>

\* const locationStats = await getLocationStats(...) resumes with the settled
\* promise; then the AQI task is started without being awaited and the
\* infrastructure query goes to the first endpoint.
AwaitLocationStats ==
    /\ pc = "lookup"
    /\ lookupOut.state \in {"fulfilled", "rejected"}
    /\ IF lookupOut.state = "rejected"
       THEN /\ Fail("dataset", lookupOut.message)
            /\ UNCHANGED <<locationStats, airQualityString, aqiPc, aqiCalls, epIdx, calls>>
       ELSE /\ locationStats' = lookupOut.value
            /\ airQualityString' = InitialAirQuality
            /\ aqiPc' = "current"
            /\ aqiCalls' = <<WaqiCall(lat, lon)>>
            /\ epIdx' = LoopStart(epIdx)
            /\ calls' = Append(calls, OverpassCall(epIdx', "infra", lat, lon))
            /\ pc' = "infra"
            /\ UNCHANGED <<response, failed>>
    /\ UNCHANGED <<hits, handled, req, city, weather, csvFile, stream, fileHandle, streamPos,
                   resolved, examined, lookupOut, current, attempts, infraData, infrastructure,
                   waterData, waterBodies, wikipedia,
                   cityData, loading, error, searchCity, toast, retryCount, requests, timers>>

(***************************************************************************)
(* The detached AQI task: (async () => { airQualityString = await          *)
(* getAQISection(lat, lon) })().                                           *)
(***************************************************************************)
\* const current = await getCurrentAQI(lat, lon), then the history fetch is issued.
CurrentAQIReturns(ex) ==
    /\ aqiPc = "current"
    /\ pc # "crashed"
    /\ current' = getCurrentAQI(ex)
    /\ aqiCalls' = Append([aqiCalls EXCEPT ![1].outcome = FetchOutcome(ex),
                                           ![1].answer = ex],
                          HistoryCall(lat, lon))
    /\ aqiPc' = "history"
    /\ UNCHANGED <<hits, handled, pc, req, response, calls, city, weather, csvFile,
                   stream, fileHandle, streamPos, resolved, examined, lookupOut, locationStats,
                   airQualityString, epIdx, attempts, infraData, infrastructure, waterData, waterBodies,
                   wikipedia, failed,
                   cityData, loading, error, searchCity, toast, retryCount, requests, timers>>

\* const history = await getAQIHistory(lat, lon), then the task assigns
\* airQualityString.
AQIHistoryReturns(ex) ==
    /\ aqiPc = "history"
    /\ pc # "crashed"
    /\ airQualityString' = AQISection(current, getAQIHistory(ex))
    /\ aqiCalls' = [aqiCalls EXCEPT ![2].answer = ex]
    /\ aqiPc' = "done"
    /\ UNCHANGED <<hits, handled, pc, req, response, calls, city, weather,
                   csvFile, stream, fileHandle, streamPos, resolved, examined, lookupOut,
                   locationStats, current, epIdx, attempts, infraData, infrastructure, waterData, waterBodies,
                   wikipedia, failed,
                   cityData, loading, error, searchCity, toast, retryCount, requests, timers>>

(***************************************************************************)
(* fetchOverpass and the two queries that use it.                          *)
(***************************************************************************)
\* if (!res.ok) throw ...; return await res.json(): the attempt succeeds when the
\* transport, the status and the parse all do.
AttemptSucceeds(ex) == ex.net = "ok" /\ ex.ok /\ ex.json # BadJson

\* A loop that skips the endpoint after a failed one.
FetchOverpassSkips(idx, ex) ==
    IF AttemptSucceeds(ex) THEN [kind |-> "return", json |-> ex.json]
    ELSE IF idx + 1 < Len(OVERPASS_ENDPOINTS) THEN [kind |-> "next", idx |-> idx + 2]
    ELSE [kind |-> "throw", message |-> AllEndpointsFailedMessage]

\* A fetch without the try/catch around an attempt: the first failure ends it.
FetchOverpassGivesUp(idx, ex) ==
    IF AttemptSucceeds(ex) THEN [kind |-> "return", json |-> ex.json]
    ELSE [kind |-> "throw", message |-> AllEndpointsFailedMessage]

\* A loop whose throw on a non-success status leaves the function.
FetchOverpassStatusFatal(idx, ex) ==
    IF AttemptSucceeds(ex) THEN [kind |-> "return", json |-> ex.json]
    ELSE IF ex.net = "ok" /\ ~ex.ok THEN [kind |-> "throw", message |-> EmptyErrorMessage]
    ELSE IF idx < Len(OVERPASS_ENDPOINTS) THEN [kind |-> "next", idx |-> idx + 1]
    ELSE [kind |-> "throw", message |-> AllEndpointsFailedMessage]

\* One turn of the loop over OVERPASS_ENDPOINTS, at endpoint idx, answered ex:
\* return the parsed body, go on to the next endpoint, or throw after the last.
fetchOverpass(idx, ex) ==
    IF AttemptSucceeds(ex) THEN [kind |-> "return", json |-> ex.json]
    ELSE IF idx < Len(OVERPASS_ENDPOINTS) THEN [kind |-> "next", idx |-> idx + 1]
    ELSE [kind |-> "throw", message |-> AllEndpointsFailedMessage]

\* One attempt as the loop saw it: the endpoint, the HTTP status of the response
\* (0 when fetch itself threw), whether the attempt succeeded and what it returned.
Attempt(idx, ex) ==
    [ url |-> OVERPASS_ENDPOINTS[idx],
      status |-> IF ex.net = "error" THEN 0 ELSE ex.status,
      ok |-> AttemptSucceeds(ex),
      json |-> IF AttemptSucceeds(ex) THEN ex.json ELSE Unset ]

\* const infraData = await fetchOverpass(infraQuery): one endpoint answers.  On
\* success the tally is built and the water query goes to the first endpoint.
InfraReturns(ex) ==
    /\ pc = "infra"
    /\ attempts' = [attempts EXCEPT !.infra = Append(@, Attempt(epIdx, ex))]
    /\ IF fetchOverpass(epIdx, ex).kind = "return"
       THEN /\ infraData' = fetchOverpass(epIdx, ex).json
            /\ infrastructure' = Infrastructure(infraData'.elements)
            /\ epIdx' = LoopStart(epIdx)
            /\ calls' = Append(calls, OverpassCall(epIdx', "water", lat, lon))
            /\ pc' = "water"
            /\ UNCHANGED <<response, failed>>
       ELSE IF fetchOverpass(epIdx, ex).kind = "next"
       THEN /\ epIdx' = fetchOverpass(epIdx, ex).idx
            /\ calls' = Append(calls, OverpassCall(epIdx', "infra", lat, lon))
            /\ UNCHANGED <<infraData, infrastructure, pc, response, failed>>
       ELSE /\ Fail("infrastructure", fetchOverpass(epIdx, ex).message)
            /\ UNCHANGED <<infraData, infrastructure, epIdx, calls>>
    /\ UNCHANGED <<hits, handled, req, aqiCalls, city, weather, csvFile, stream, fileHandle,
                   streamPos, resolved, examined, lookupOut, locationStats, aqiPc,
                   current, airQualityString, waterData, waterBodies, wikipedia,
                   cityData, loading, error, searchCity, toast, retryCount, requests, timers>>

\* const waterData = await fetchOverpass(waterQuery): one endpoint answers.  On
\* success the tally is built and the Wikipedia fetch is issued.
WaterReturns(ex) ==
    /\ pc = "water"
    /\ attempts' = [attempts EXCEPT !.water = Append(@, Attempt(epIdx, ex))]
    /\ IF fetchOverpass(epIdx, ex).kind = "return"
       THEN /\ waterData' = fetchOverpass(epIdx, ex).json
            /\ waterBodies' = WaterBodies(waterData'.elements)
            /\ calls' = Append(calls, WikiCall(req.city))
            /\ pc' = "wiki"
            /\ UNCHANGED <<epIdx, response, failed>>
       ELSE IF fetchOverpass(epIdx, ex).kind = "next"
       THEN /\ epIdx' = fetchOverpass(epIdx, ex).idx
            /\ calls' = Append(calls, OverpassCall(epIdx', "water", lat, lon))
            /\ UNCHANGED <<waterData, waterBodies, pc, response, failed>>
       ELSE /\ Fail("water", fetchOverpass(epIdx, ex).message)
            /\ UNCHANGED <<waterData, waterBodies, epIdx, calls>>
    /\ UNCHANGED <<hits, handled, req, aqiCalls, city, weather, csvFile, stream, fileHandle,
                   streamPos, resolved, examined, lookupOut, locationStats, aqiPc,
                   current, airQualityString, infraData, infrastructure, wikipedia,
                   cityData, loading, error, searchCity, toast, retryCount, requests, timers>>

(***************************************************************************)
(* The Wikipedia fetch and the final response.                             *)
(***************************************************************************)
\* The object passed to res.json.
Report(wiki) ==
    [ city |-> [ name |-> req.city, displayName |-> city.display_name,
                 lat |-> lat, lon |-> lon ],
      population |-> locationStats.population,
      area |-> locationStats.area,
      weather |-> weather,
      airQuality |-> airQualityString,
      infrastructure |-> infrastructure,
      waterBodies |-> waterBodies,
      wikipedia |-> wiki ]

\* const wikipedia = await safeFetch(wikiURL), then res.json(report).
WikiReturns(ex) ==
    /\ pc = "wiki"
    /\ IF safeFetch(ex).threw
       THEN /\ Fail("wikipedia", safeFetch(ex).message)
            /\ UNCHANGED wikipedia
       ELSE /\ wikipedia' = safeFetch(ex).json
            /\ response' = [status |-> 200, body |-> Report(safeFetch(ex).json)]
            /\ pc' = "done"
            /\ UNCHANGED failed
    /\ UNCHANGED <<hits, handled, req, calls, aqiCalls, city, weather, csvFile, stream, fileHandle,
                   streamPos, resolved, examined, lookupOut, locationStats, aqiPc,
                   current, airQualityString, epIdx, attempts, infraData, infrastructure,
                   waterData, waterBodies,
                   cityData, loading, error, searchCity, toast, retryCount, requests, timers>>

(***************************************************************************)
(* The frontend: App's fetchCityData (src/frontend/src/App.jsx).  A call   *)
(* of fetchCityData reads retryCount from the closure of the render that   *)
(* made it; the value is kept in the call's record as retryCount.          *)
(***************************************************************************)
maxRetries == 3

\* Cities the user asks for.
AppCities == {"Delhi", "Agra", "Pune"}

\* What axios.get("/api") settles with: a response (fulfilled when its status is
\* 2xx, rejected otherwise), or a rejection without response (no connection,
\* the 15 s timeout).
AxiosAnswers(c) ==
    { [ response |-> [status |-> 200, data |-> [type |-> "object", city |-> c]],
        message |-> "" ],
      [ response |-> [status |-> 200, data |-> Str("")], message |-> "" ],
      [ response |-> [ status |-> 500,
                       data |-> [type |-> "object", error |-> Str(CityNotFoundMessage)] ],
        message |-> "Request failed with status code 500" ],
      [ response |-> [ status |-> 429,
                       data |-> [type |-> "object", error |-> Str(RateLimitMessage)] ],
        message |-> "Request failed with status code 429" ],
      [ response |-> [status |-> 404, data |-> Str("<html>Not Found</html>")],
        message |-> "Request failed with status code 404" ],
      [ response |-> Unset, message |-> "Network Error" ],
      [ response |-> Unset, message |-> "timeout of 15000ms exceeded" ] }

\* Whether the try block runs to its end: the promise is fulfilled and
\* response.data is truthy.
Loaded(answer) ==
    /\ answer.response # Unset
    /\ answer.response.status = 200
    /\ answer.response.data # Str("")

\* The err the catch block receives: the rejection of axios.get, or the Error
\* thrown for a response without data, which has no response member.
Caught(answer) ==
    IF answer.response # Unset /\ answer.response.status = 200
    THEN [response |-> Unset, message |-> "No data received from server"]
    ELSE answer

\* err.response?.data?.error || err.message || 'Failed to fetch city data'
errorMessage(err) ==
    IF /\ err.response # Unset
       /\ err.response.data.type = "object"
       /\ err.response.data.error.value # ""
    THEN err.response.data.error.value
    ELSE IF err.message # "" THEN err.message
    ELSE "Failed to fetch city data"

\* !v for a value that is undefined or a number.
Not(v) ==
    [ type |-> "boolean",
      value |-> IF v.type = "number" THEN v.value = 0 ELSE TRUE ]

\* a === b: values of different types are never strictly equal.
StrictEquals(a, b) == a.type = b.type /\ a = b

\* retryCount < maxRetries && !err.response?.status === 404.  The ! applies to
\* the status alone, so the right operand compares a boolean with 404.
ShouldRetry(seen, err) ==
    /\ seen < maxRetries
    /\ StrictEquals(Not(IF err.response = Unset THEN Unset ELSE Num(err.response.status)),
                    Num(404))

\* The callback setTimeout holds for retry nextRetry of a call that saw seen:
\* it calls fetchCityData(city, true) after Math.pow(2, nextRetry) * 1000 ms.
RetryTimer(c, seen) ==
    [city |-> c, retryCount |-> seen, delay |-> (2 ^ (seen + 1)) * 1000]

\* fetchCityData(city, isRetry) up to await axios.get.
fetchCityData(c, isRetry, seen) ==
    /\ IF isRetry
       THEN UNCHANGED <<loading, error, retryCount>>
       ELSE /\ loading' = TRUE
            /\ error' = Null
            /\ retryCount' = 0
    /\ requests' = requests \cup {[city |-> c, isRetry |-> isRetry, retryCount |-> seen]}

\* The state of App after its first render and its mount effect, which has
\* called fetchCityData(searchCity).
AppMounted ==
    /\ cityData = Null
    /\ loading = TRUE
    /\ error = Null
    /\ searchCity = "Delhi"
    /\ toast = Null
    /\ retryCount = 0
    /\ requests = {[city |-> "Delhi", isRetry |-> FALSE, retryCount |-> 0]}
    /\ timers = {}

\* handleSearch with another city (from the page that shows a report), or Go to
\* Default (from the error screen): setSearchCity, and the effect on searchCity
\* calls fetchCityData(searchCity).
Search(c) ==
    /\ ~loading
    /\ c # searchCity
    /\ IF cityData = Null THEN error # Null /\ c = "Delhi" ELSE TRUE
    /\ searchCity' = c
    /\ fetchCityData(c, FALSE, retryCount)
    /\ UNCHANGED <<cityData, toast, timers>>
    /\ UNCHANGED serverVars

\* fetchCityData is called again: by the Try Again button of the error screen
\* (isRetry false), or by a retry timer that has run out (isRetry true).
Refetch(c, isRetry, seen) ==
    /\ IF isRetry
       THEN /\ RetryTimer(c, seen) \in timers
            /\ timers' = timers \ {RetryTimer(c, seen)}
       ELSE /\ ~loading
            /\ error # Null
            /\ cityData = Null
            /\ c = searchCity
            /\ seen = retryCount
            /\ UNCHANGED timers
    /\ fetchCityData(c, isRetry, seen)
    /\ UNCHANGED <<cityData, searchCity, toast>>
    /\ UNCHANGED serverVars

\* await axios.get settles for the call r: the rest of the try block, or the
\* catch block, and then finally.
AxiosSettles(r, answer) ==
    /\ r \in requests
    /\ answer \in AxiosAnswers(r.city)
    /\ requests' = requests \ {r}
    /\ loading' = FALSE
    /\ IF Loaded(answer)
       THEN /\ cityData' = answer.response.data
            /\ error' = Null
            /\ retryCount' = 0
            /\ toast' = [ message |-> <<"Successfully loaded data for ", r.city>>,
                          type |-> "success" ]
            /\ UNCHANGED timers
       ELSE IF ShouldRetry(r.retryCount, Caught(answer))
       THEN /\ retryCount' = r.retryCount + 1
            /\ toast' = [ message |-> <<"Retrying... ", r.retryCount + 1, maxRetries>>,
                          type |-> "warning" ]
            /\ timers' = timers \cup {RetryTimer(r.city, r.retryCount)}
            /\ UNCHANGED <<cityData, error>>
       ELSE /\ error' = Str(errorMessage(Caught(answer)))
            /\ toast' = IF Caught(answer).response # Unset
                           /\ Caught(answer).response.status = 404
                        THEN [ message |-> <<"City not found. Showing sample data", r.city>>,
                               type |-> "warning" ]
                        ELSE [ message |-> <<errorMessage(Caught(answer))>>,
                               type |-> "error" ]
            /\ UNCHANGED <<cityData, retryCount, timers>>
    /\ UNCHANGED searchCity
    /\ UNCHANGED serverVars

(***************************************************************************)
(* Specifications.                                                         *)
(***************************************************************************)
\* The server after app.listen, before any request.
Idle ==
    /\ hits = [ip \in IPs |-> 0]
    /\ handled = [ip \in IPs |-> 0]
    /\ pc = "idle"
    /\ req = Unset
    /\ response = NoResponse
    /\ calls = <<>>
    /\ aqiCalls = <<>>
    /\ city = Unset
    /\ weather = Unset
    /\ stream = "none"
    /\ fileHandle = "none"
    /\ streamPos = 0
    /\ resolved = FALSE
    /\ examined = 0
    /\ lookupOut = Unset
    /\ locationStats = Unset
    /\ aqiPc = "none"
    /\ current = Unset
    /\ airQualityString = Unset
    /\ epIdx = 0
    /\ attempts = [infra |-> <<>>, water |-> <<>>]
    /\ infraData = Unset
    /\ infrastructure = Unset
    /\ waterData = Unset
    /\ waterBodies = Unset
    /\ wikipedia = Unset
    /\ failed = NoFailure
    /\ AppMounted

Init ==
    /\ Idle
    /\ csvFile = DeployedFile

\* One request, from its arrival to its response and the end of its AQI task,
\* against every answer of the upstream services.
Next ==
    \/ \E ip \in IPs, cityName \in CityParams : ApiGet(ip, cityName)
    \/ \E ex \in GeoAnswers : GeocodeReturns(ex)
    \/ \E ex \in WeatherAnswers : WeatherReturns(ex)
    \/ StreamData
    \/ StreamEnd
    \/ StreamError
    \/ SourceError
    \/ AwaitLocationStats
    \/ \E ex \in CurrentAQIAnswers : CurrentAQIReturns(ex)
    \/ \E ex \in AQIHistoryAnswers : AQIHistoryReturns(ex)
    \/ \E ex \in OverpassFailures \cup {HttpOk(p) : p \in InfraPayloads} : InfraReturns(ex)
    \/ \E ex \in OverpassFailures \cup {HttpOk(p) : p \in WaterPayloads} : WaterReturns(ex)
    \/ \E ex \in WikiAnswers : WikiReturns(ex)

Spec == Init /\ [][Next]_vars

\* The same request when nothing that can happen is put off for ever: every
\* pending upstream call returns or throws, and the dataset stream delivers its
\* next row, its end or its error.
SpecFair == Spec /\ WF_vars(Next)

\* The page alone: the user's searches and retries against every answer of the
\* API.
NextApp ==
    \/ \E c \in AppCities : Search(c)
    \/ \E c \in AppCities, isRetry \in BOOLEAN, seen \in 0..maxRetries :
           Refetch(c, isRetry, seen)
    \/ \E r \in requests, answer \in UNION {AxiosAnswers(c) : c \in AppCities} :
           AxiosSettles(r, answer)

SpecApp == Init /\ [][NextApp]_vars

\* getLocationStats alone: the handler is suspended at await getLocationStats(...)
\* for a request of city Agra that the geocoder resolved to any of the places,
\* over every dataset file of up to MaxRows rows.
InitLookup ==
    /\ hits = [ip \in IPs |-> IF ip = "10.0.0.1" THEN 1 ELSE 0]
    /\ handled = hits
    /\ pc = "lookup"
    /\ req = [ip |-> "10.0.0.1", city |-> sAgra]
    /\ response = NoResponse
    /\ city \in Places
    /\ calls = << [NominatimCall(sAgra) EXCEPT !.found = Array(<<city>>)],
                  WeatherCall(lat, lon),
                  DatasetCall(SearchValue(city.display_name)) >>
    /\ aqiCalls = <<>>
    /\ weather = WeatherPayload
    /\ csvFile \in Files
    /\ stream = "open"
    /\ fileHandle = "open"
    /\ streamPos = 0
    /\ resolved = FALSE
    /\ examined = 0
    /\ lookupOut = Pending
    /\ locationStats = Unset
    /\ aqiPc = "none"
    /\ current = Unset
    /\ airQualityString = Unset
    /\ epIdx = 0
    /\ attempts = [infra |-> <<>>, water |-> <<>>]
    /\ infraData = Unset
    /\ infrastructure = Unset
    /\ waterData = Unset
    /\ waterBodies = Unset
    /\ wikipedia = Unset
    /\ failed = NoFailure
    /\ AppMounted

NextLookup ==
    \/ StreamData
    \/ StreamEnd
    \/ StreamError
    \/ SourceError
    \/ AwaitLocationStats

SpecLookup == InitLookup /\ [][NextLookup]_vars

\* The rate limiter: requests of two clients, one after the other, within and
\* across windows, against upstream services that answer; the geocoder may find
\* no place, so that requests end 400, 500 and 200.
NextLimiter ==
    \/ \E ip \in IPs, cityName \in {Undefined, sAgra} : ApiGet(ip, cityName)
    \/ \E ip \in IPs, cityName \in {Undefined, sAgra} : ApiGetNext(ip, cityName)
    \/ \E ip \in IPs : WindowExpires(ip)
    \/ \E ex \in {HttpOk(Array(<<>>)), HttpOk(Array(<<PlaceAgra>>))} : GeocodeReturns(ex)
    \/ WeatherReturns(HttpOk(WeatherPayload))
    \/ StreamData
    \/ AwaitLocationStats
    \/ CurrentAQIReturns(WaqiOk(Num(160)))
    \/ AQIHistoryReturns(HistoryOk)
    \/ InfraReturns(HttpOk([elements |-> InfraElements]))
    \/ WaterReturns(HttpOk([elements |-> WaterElements]))
    \/ WikiReturns(HttpOk(WikiPayload))

SpecLimiter == Init /\ [][NextLimiter]_vars

\* The handler suspended at the first Overpass attempt of the infrastructure
\* query, the AQI task suspended at the WAQI fetch: the request for Agra after the
\* geocoder, the weather service and the dataset have answered.
InitSections ==
    /\ hits = [ip \in IPs |-> IF ip = "10.0.0.1" THEN 1 ELSE 0]
    /\ handled = hits
    /\ pc = "infra"
    /\ req = [ip |-> "10.0.0.1", city |-> sAgra]
    /\ response = NoResponse
    /\ city = PlaceAgra
    /\ calls = << [NominatimCall(sAgra) EXCEPT !.found = Array(<<city>>)],
                  WeatherCall(lat, lon),
                  DatasetCall(SearchValue(city.display_name)),
                  OverpassCall(1, "infra", lat, lon) >>
    /\ aqiCalls = <<WaqiCall(lat, lon)>>
    /\ weather = WeatherPayload
    /\ csvFile = DeployedFile
    /\ stream = "destroyed"
    /\ fileHandle = "open"
    /\ streamPos = 2
    /\ resolved = TRUE
    /\ examined = 2
    /\ lookupOut = Fulfilled(LocationStats(csvFile[2], query))
    /\ locationStats = lookupOut.value
    /\ aqiPc = "current"
    /\ current = Unset
    /\ airQualityString = InitialAirQuality
    /\ epIdx = 1
    /\ attempts = [infra |-> <<>>, water |-> <<>>]
    /\ infraData = Unset
    /\ infrastructure = Unset
    /\ waterData = Unset
    /\ waterBodies = Unset
    /\ wikipedia = Unset
    /\ failed = NoFailure
    /\ AppMounted

\* The AQI task alone, over readings and samples on both sides of every threshold.
NextAQI ==
    \/ \E ex \in {NetworkError, HttpError(502, "Bad Gateway"), HttpOk(BadJson), WaqiNoStation,
                    WaqiNoData}
                    \cup {WaqiOk(v) : v \in AQIValues} :
           CurrentAQIReturns(ex)
    \/ \E ex \in {NetworkError, HttpError(502, "Bad Gateway"), HttpOk(BadJson),
                    HistoryNoSeries, HistoryNoSamples}
                    \cup {HistoryOfTwo(a, b) : a \in AQIValues, b \in AQIValues} :
           AQIHistoryReturns(ex)

SpecAQI == InitSections /\ [][NextAQI]_vars

\* A request for Agra against upstream services that all answer, over every
\* place the geocoder can name and every dataset file of up to MaxRows rows.
InitSuccess ==
    /\ Idle
    /\ csvFile \in Files

NextSuccess ==
    \/ \E ip \in IPs : ApiGet(ip, sAgra)
    \/ \E place \in Places : GeocodeReturns(HttpOk(Array(<<place>>)))
    \/ WeatherReturns(HttpOk(WeatherPayload))
    \/ StreamData
    \/ StreamEnd
    \/ AwaitLocationStats
    \/ CurrentAQIReturns(WaqiOk(Num(160)))
    \/ AQIHistoryReturns(HistoryOk)
    \/ InfraReturns(HttpOk([elements |-> InfraElements]))
    \/ WaterReturns(HttpOk([elements |-> WaterElements]))
    \/ WikiReturns(HttpOk(WikiPayload))

SpecSuccess == InitSuccess /\ [][NextSuccess]_vars

\* The infrastructure tally alone: the first endpoint answers the query with any
\* result of up to MaxElems points.
NextTally ==
    \E elements \in SeqsUpTo(TallyElements, MaxElems) :
        InfraReturns(HttpOk([elements |-> elements]))

SpecTally == InitSections /\ [][NextTally]_vars

\* The water tally alone: the infrastructure query succeeds at the first
\* endpoint, and the first endpoint answers the water query with any result of
\* up to MaxElems ways.
NextWater ==
    \/ InfraReturns(HttpOk([elements |-> InfraElements]))
    \/ \E elements \in SeqsUpTo(WaterTallyElements, MaxElems) :
           WaterReturns(HttpOk([elements |-> elements]))

SpecWater == InitSections /\ [][NextWater]_vars

(***************************************************************************)
(* Properties.                                                             *)
(***************************************************************************)
\* An air-quality section as the response documents it: a current reading with
\* its five fields and a history list.
WellFormedAirQuality(aq) ==
    /\ aq.type = "object"
    /\ DOMAIN aq.currentAQI = {"aqi", "category", "pollutants", "dominentPollutant", "time"}
    /\ DOMAIN aq.history = 1..Len(aq.history)

\* C1: every 200 response carries a well-formed airQuality section (a current
\* reading and a history list), whatever the order in which the AQI sub-fetches
\* and the infrastructure, water-body and Wikipedia fetches complete.
C1_AirQualityWellFormed ==
    response.status = 200 => WellFormedAirQuality(response.body.airQuality)

\* C2: when the current-AQI call threw and the request was answered 200, the
\* response's current reading has aqi null and the no-data category.
C2_ThrownAQIYieldsNoData ==
    (response.status = 200 /\ aqiCalls[1].outcome = "threw")
        => /\ response.body.airQuality.type = "object"
           /\ response.body.airQuality.currentAQI.aqi = Null
           /\ response.body.airQuality.currentAQI.category = "No data"

\* C3: a request whose city parameter is absent or empty is answered 400 and no
\* upstream call is made for it; no other request is answered 400.
C3_MissingCityIs400 ==
    /\ (req # Unset /\ req.city \in {Undefined, EmptyString} /\ response.status # 429)
           => /\ response = [status |-> 400, body |-> [error |-> CityRequiredMessage]]
              /\ pc = "done"
              /\ calls = <<>>
              /\ aqiCalls = <<>>
              /\ stream = "none"
    /\ response.status = 400 => req.city \in {Undefined, EmptyString}

C3_Witness ==
    /\ response.status = 400
    /\ req.city = EmptyString
    /\ calls = <<>>

\* C4: of one client's requests within a window exactly the first RateMax enter
\* the handler; each later one is answered 429 with the rate-limit message and
\* runs no step of the handler.
C4_RateLimit ==
    /\ \A ip \in IPs :
           handled[ip] = IF hits[ip] <= RateMax THEN hits[ip] ELSE RateMax
    /\ (req # Unset /\ hits[req.ip] > RateMax) => response.status = 429
    /\ response.status = 429
           => /\ response.body = [error |-> RateLimitMessage]
              /\ pc = "done"
              /\ calls = <<>>
              /\ aqiCalls = <<>>
              /\ stream = "none"
              /\ city = Unset
              /\ failed = NoFailure

C4_Witness ==
    /\ response.status = 429
    /\ hits[req.ip] > RateMax + 1
    /\ handled[req.ip] = RateMax

\* C5: once a step of the request has failed and the request is over, the response
\* is status 500 with the failure's message as its only content.
C5_FailureIs500 ==
    (failed # NoFailure /\ pc \in {"done", "crashed"})
        => response = [status |-> 500, body |-> [error |-> failed.message]]

\* The endpoints a query's fetches went to, in the order they were issued.
UrlsCalled(q) ==
    LET issued == SelectSeq(calls, LAMBDA c : c.svc = "overpass" /\ c.query = q)
    IN [i \in 1..Len(issued) |-> issued[i].url]

UrlsAttempted(q) == [i \in 1..Len(attempts[q]) |-> attempts[q][i].url]

OnlyLastSucceeds(log) ==
    /\ Len(log) = Len(OVERPASS_ENDPOINTS)
    /\ \A i \in 1..Len(log) : log[i].ok <=> i = Len(log)

\* C6: fetchOverpass attempts the endpoints in list order, each at most once and
\* none skipped; when only the last one succeeds, every endpoint was attempted
\* once and the result is the last endpoint's parsed response.
C6_LastEndpointWins ==
    /\ \A q \in {"infra", "water"} :
           /\ Len(attempts[q]) <= Len(OVERPASS_ENDPOINTS)
           /\ UrlsAttempted(q) = SubSeq(OVERPASS_ENDPOINTS, 1, Len(attempts[q]))
           /\ OnlyLastSucceeds(attempts[q]) => UrlsCalled(q) = OVERPASS_ENDPOINTS
    /\ OnlyLastSucceeds(attempts.infra)
           => infraData = attempts.infra[Len(OVERPASS_ENDPOINTS)].json
    /\ OnlyLastSucceeds(attempts.water)
           => waterData = attempts.water[Len(OVERPASS_ENDPOINTS)].json

C6_Witness ==
    /\ OnlyLastSucceeds(attempts.infra)
    /\ OnlyLastSucceeds(attempts.water)
    /\ infraData = [elements |-> InfraElements]
    /\ waterData = [elements |-> <<>>]

AllFail(log) ==
    /\ Len(log) = Len(OVERPASS_ENDPOINTS)
    /\ \A i \in 1..Len(log) : ~log[i].ok

AllEndpointsFailed500 ==
    /\ pc = "done"
    /\ response = [status |-> 500, body |-> [error |-> AllEndpointsFailedMessage]]

\* C7: when every endpoint attempt of a query has failed, fetchOverpass has thrown
\* the all-endpoints-failed error and has returned nothing; it throws only after
\* the last endpoint's attempt.
C7_AllEndpointsFail ==
    /\ AllFail(attempts.infra)
           => AllEndpointsFailed500 /\ failed.step = "infrastructure" /\ infraData = Unset
    /\ AllFail(attempts.water)
           => AllEndpointsFailed500 /\ failed.step = "water" /\ waterData = Unset
    /\ failed.step = "infrastructure" => AllFail(attempts.infra)
    /\ failed.step = "water" => AllFail(attempts.water)

C7_Witness ==
    /\ AllFail(attempts.water)
    /\ infraData # Unset
    /\ response.status = 500

\* Whether a field of the row, trimmed and lowercased, equals q.
FieldEquals(row, field, q) ==
    row[field] # Undefined /\ toLowerCase(trim(row[field])) = q

RowMatches(row, q) == \E field \in {"City", "District", "State"} : FieldEquals(row, field, q)

\* The result the first-match rule gives for row: the first of city, district and
\* state that matches, with the row's raw field as the name.
FirstField(row, q) ==
    IF FieldEquals(row, "City", q) THEN [matchedOn |-> "city", name |-> row.City]
    ELSE IF FieldEquals(row, "District", q) THEN [matchedOn |-> "district", name |-> row.District]
    ELSE [matchedOn |-> "state", name |-> row.State]

\* C8: getLocationStats resolves with the first row in file order that matches the
\* query on city, district or state, reporting the first matching field in that
\* order; the result is determined by the file and the query.
C8_FirstMatchWins ==
    /\ lookupOut.state = "fulfilled"
           => \E i \in 1..Len(csvFile) :
                  /\ RowMatches(csvFile[i], toLowerCase(trim(SearchValue(city.display_name))))
                  /\ \A j \in 1..(i - 1) :
                         ~RowMatches(csvFile[j], toLowerCase(trim(SearchValue(city.display_name))))
                  /\ lookupOut.value.matchedOn =
                         FirstField(csvFile[i], toLowerCase(trim(SearchValue(city.display_name)))).matchedOn
                  /\ lookupOut.value.name =
                         FirstField(csvFile[i], toLowerCase(trim(SearchValue(city.display_name)))).name
                  /\ lookupOut.value.population = NumberOrZero(csvFile[i].Population)
                  /\ lookupOut.value.area = NumberOrZero(csvFile[i].Area)
    /\ locationStats # Unset => locationStats = lookupOut.value

\* The first row matches on district only and a later row matches on city.
C8_Witness ==
    /\ lookupOut.state = "fulfilled"
    /\ lookupOut.value.matchedOn = "district"
    /\ \E j \in 2..Len(csvFile) : MatchedOn(csvFile[j], query) = "city"
    /\ locationStats = lookupOut.value

\* C9: once the promise is fulfilled by the first matching row, no step examines
\* another row, changes the resolved value or fails the lookup.
C9_NothingAfterMatch ==
    [][ lookupOut.state = "fulfilled"
          => /\ lookupOut' = lookupOut
             /\ examined' = examined
             /\ failed' = NoFailure
             /\ locationStats' \in {Unset, lookupOut.value} ]_vars

\* A malformed row was delivered after the match.
C9_Witness ==
    /\ lookupOut.state = "fulfilled"
    /\ streamPos > examined
    /\ csvFile[streamPos] = RowMalformed
    /\ locationStats = lookupOut.value

\* C10: when the stream has ended with no row matching, the promise is rejected
\* with the no-match error, and once the handler has resumed the request is over
\* with status 500 and that message, no report and no further call.
C10_NoMatchIsTerminal ==
    (stream = "ended" /\ \A i \in 1..Len(csvFile) : ~RowMatches(csvFile[i], query))
        => /\ lookupOut = Rejected(NoMatchMessage)
           /\ pc \in {"lookup", "done"}
           /\ pc = "done"
                  => /\ response = [status |-> 500, body |-> [error |-> NoMatchMessage]]
                     /\ locationStats = Unset
                     /\ Len(calls) = 3
                     /\ aqiCalls = <<>>

C10_Witness ==
    /\ stream = "ended"
    /\ Len(csvFile) >= 1
    /\ pc = "done"
    /\ response.status = 500

\* C11: when the geocoder answered with an empty result set, the request is over
\* with status 500 and the not-found message; the geocoding call is the only call
\* made for it and no place stands in for the missing one.
C11_EmptyGeocodeIsTerminal ==
    (calls # <<>> /\ calls[1].found = Array(<<>>))
        => /\ response = [status |-> 500, body |-> [error |-> CityNotFoundMessage]]
           /\ pc = "done"
           /\ Len(calls) = 1
           /\ aqiCalls = <<>>
           /\ stream = "none"
           /\ city = Unset
           /\ locationStats = Unset

C11_Witness ==
    /\ calls # <<>>
    /\ calls[1].found = Array(<<>>)
    /\ response.status = 500
    /\ failed = [step |-> "geocode", message |-> CityNotFoundMessage]

\* The calls of the request that are made for a pair of coordinates: weather,
\* current AQI, AQI history and the two Overpass queries.
CoordinateCalls ==
    SelectSeq(calls \o aqiCalls,
              LAMBDA c : c.svc \in {"open-meteo", "waqi", "air-quality-history", "overpass"})

GeocodingCalls == SelectSeq(calls \o aqiCalls, LAMBDA c : c.svc = "nominatim")

\* C12: a request that passed validation has made exactly one geocoding call, for
\* the requested name, and every weather, AQI, AQI-history and Overpass call of the
\* request carries the latitude and longitude of the first place that call found.
C12_OneGeocodeOnePair ==
    /\ (req # Unset /\ response.status \notin {400, 429})
           => /\ Len(GeocodingCalls) = 1
              /\ calls[1] = GeocodingCalls[1]
              /\ calls[1].q = req.city
    /\ CoordinateCalls # <<>> => calls[1].found.type = "array"
    /\ \A i \in 1..Len(CoordinateCalls) :
           /\ CoordinateCalls[i].lat = Number(calls[1].found.items[1].lat)
           /\ CoordinateCalls[i].lon = Number(calls[1].found.items[1].lon)

\* Every kind of downstream lookup has been made, both Overpass queries included.
C12_Witness ==
    /\ response.status = 200
    /\ Len(aqiCalls) = 2
    /\ \E i \in 1..Len(calls) : calls[i].svc = "open-meteo"
    /\ \E i \in 1..Len(calls) : calls[i].svc = "overpass" /\ calls[i].query = "infra"
    /\ \E i \in 1..Len(calls) : calls[i].svc = "overpass" /\ calls[i].query = "water"
    /\ response.body.city.lat = Number(calls[1].found.items[1].lat)

\* The rank of a category on the severity scale.
Severity(category) ==
    CASE category = "Good" -> 1
      [] category = "Moderate" -> 2
      [] category = "Unhealthy for Sensitive Groups" -> 3
      [] category = "Unhealthy" -> 4
      [] category = "Very Unhealthy" -> 5
      [] category = "Hazardous" -> 6

\* The bucket of a figure by the documented boundaries.
Bucket(v) ==
    IF v <= 50 THEN "Good"
    ELSE IF 50 < v /\ v <= 100 THEN "Moderate"
    ELSE IF 100 < v /\ v <= 150 THEN "Unhealthy for Sensitive Groups"
    ELSE IF 150 < v /\ v <= 200 THEN "Unhealthy"
    ELSE IF 200 < v /\ v <= 300 THEN "Very Unhealthy"
    ELSE "Hazardous"

\* The figures categorizeAQI was applied to, each with the category it gave: the
\* current reading, when WAQI answered, and the samples of the history.
Categorized ==
    (IF current # Unset /\ current # NoDataReading
     THEN {[figure |-> current.aqi, category |-> current.category]} ELSE {})
    \cup
    (IF airQualityString.type = "object"
     THEN {[figure |-> airQualityString.history[i].pm25,
            category |-> airQualityString.history[i].aqi] :
              i \in 1..Len(airQualityString.history)}
     ELSE {})

\* C13: categorizeAQI gives a number the bucket of the boundaries 50, 100, 150,
\* 200 and 300 (each boundary belongs to the bucket below it), gives null the
\* no-data category, and never gives a larger figure a less severe category.
C13_CategoryBoundaries ==
    /\ \A c \in Categorized :
           /\ c.figure = Null => c.category = "No data"
           /\ c.figure.type = "number" => c.category = Bucket(c.figure.value)
    /\ \A c, d \in Categorized :
           (c.figure.type = "number" /\ d.figure.type = "number"
              /\ c.figure.value <= d.figure.value)
               => Severity(c.category) <= Severity(d.category)

\* A sample exactly on a boundary beside one just above it, and a null sample.
C13_Witness ==
    /\ airQualityString.type = "object"
    /\ Len(airQualityString.history) = 2
    /\ airQualityString.history[1].pm25 = Num(300)
    /\ airQualityString.history[1].aqi = "Very Unhealthy"
    /\ airQualityString.history[2].pm25 = Num(301)
    /\ airQualityString.history[2].aqi = "Hazardous"
    /\ current.aqi = Null
    /\ current.category = "No data"
    /\ aqiCalls[1].outcome = "returned"

Categories == {"hospitals", "schools", "colleges", "railwayStations", "metroStations"}

\* The value of a point's tag, Absent when the point has no such tag or no tags.
Tag(el, key) == IF el.tags = Unset THEN Absent ELSE el.tags[key]

HasNameTag(el) == Tag(el, "name") # Absent

\* The documented rule of each category.
RuleHolds(category, el) ==
    CASE category = "hospitals" -> Tag(el, "amenity") = "hospital"
      [] category = "schools" -> Tag(el, "amenity") = "school"
      [] category = "colleges" -> Tag(el, "amenity") = "college"
      [] category = "railwayStations" ->
             Tag(el, "railway") = "station" /\ Tag(el, "station") # "subway"
      [] category = "metroStations" ->
             \/ Tag(el, "station") = "subway"
             \/ Tag(el, "railway") = "subway_entrance"
             \/ (Tag(el, "public_transport") = "station" /\ Tag(el, "subway") = "yes")

\* The raw names of the returned named points that a category's rule holds for.
NamesIn(category) ==
    { Tag(infraData.elements[i], "name") :
        i \in { k \in 1..Len(infraData.elements) :
                  /\ HasNameTag(infraData.elements[k])
                  /\ RuleHolds(category, infraData.elements[k]) } }

NoDuplicates(seq) == \A i, j \in 1..Len(seq) : i # j => seq[i] # seq[j]

\* C14: in every category the name list holds no name twice, holds exactly the
\* distinct raw names of the category's points (names are compared as they are, so
\* names that differ in case are different names), and the count is the length of
\* the list, however many points share a name.
C14_DedupByExactName ==
    infrastructure # Unset
        => \A c \in Categories :
               /\ NoDuplicates(infrastructure.names[c])
               /\ infrastructure[c] = Len(infrastructure.names[c])
               /\ infrastructure[c] = Cardinality(NamesIn(c))
               /\ Range(infrastructure.names[c]) \subseteq
                      {Tag(infraData.elements[i], "name") : i \in 1..Len(infraData.elements)}

\* Two points share a name and a third differs from it in case only.
C14_Witness ==
    /\ infrastructure # Unset
    /\ Len(infraData.elements) = 3
    /\ infraData.elements[1] = infraData.elements[2]
    /\ infrastructure.hospitals = 2
    /\ infrastructure.names.hospitals = <<"City Hospital", "city hospital">>

\* C15: the tally is the tally of the result without its unnamed points, and no
\* name list holds an entry for a point that has no name.
C15_UnnamedPointsExcluded ==
    infrastructure # Unset
        => /\ infrastructure = Infrastructure(SelectSeq(infraData.elements, HasNameTag))
           /\ \A c \in Categories : Absent \notin Range(infrastructure.names[c])

\* A named hospital between an unnamed hospital and a point without tags.
C15_Witness ==
    /\ infrastructure # Unset
    /\ Len(infraData.elements) = 3
    /\ ~HasNameTag(infraData.elements[1])
    /\ Tag(infraData.elements[1], "amenity") = "hospital"
    /\ infraData.elements[3].tags = Unset
    /\ infrastructure.hospitals = 1
    /\ infrastructure.names.hospitals = <<"City Hospital">>

\* C20: a name is in a category's list if and only if a returned named point of
\* that name satisfies the category's rule.
C20_ClassificationRules ==
    infrastructure # Unset
        => \A c \in Categories : Range(infrastructure.names[c]) = NamesIn(c)

\* A subway station tagged railway=station, a mainline station that is a hospital
\* too, and a public-transport station that is no subway, in one result.
C20_Witness ==
    /\ infrastructure # Unset
    /\ Len(infraData.elements) = 3
    /\ Tag(infraData.elements[3], "name") = "Bus Stand"
    /\ infrastructure.names.metroStations = <<"Taj Metro">>
    /\ infrastructure.names.railwayStations = <<"Railway Hospital">>
    /\ infrastructure.names.hospitals = <<"Railway Hospital">>

\* Whether a field is a decimal numeral, spaces around it aside.
IsNumeral(field) ==
    /\ field # Undefined
    /\ trim(field) # <<>>
    /\ \A i \in 1..Len(trim(field)) : IsDigit(trim(field)[i])

C17_OrderIndependent ==
    (response.status = 200 /\ aqiPc = "done")
        => response.body.airQuality = airQualityString

\* What the handler holds as the result of a query.
DataOf(q) == IF q = "infra" THEN infraData ELSE waterData

\* An attempt that was answered with a non-success HTTP status.
StatusFailure(attempt) == ~attempt.ok /\ attempt.status \notin {0, 200}

\* C18: an attempt answered with a non-success HTTP status at an endpoint that is
\* not the last does not end the query: the next endpoint of the list is called.  A
\* successful attempt is the last attempt of its query, every attempt before it
\* failed, its parsed body is the query's result, and no endpoint is called after
\* it.
C18_FirstSuccessWins ==
    \A q \in {"infra", "water"} :
        /\ \A i \in 1..Len(attempts[q]) :
               /\ (StatusFailure(attempts[q][i]) /\ i < Len(OVERPASS_ENDPOINTS))
                      => /\ Len(UrlsCalled(q)) >= i + 1
                         /\ UrlsCalled(q)[i + 1] = OVERPASS_ENDPOINTS[i + 1]
               /\ attempts[q][i].ok
                      => /\ i = Len(attempts[q])
                         /\ \A j \in 1..(i - 1) : ~attempts[q][j].ok
                         /\ DataOf(q) = attempts[q][i].json
                         /\ UrlsCalled(q) = SubSeq(OVERPASS_ENDPOINTS, 1, i)
        /\ DataOf(q) # Unset
               => /\ attempts[q] # <<>>
                  /\ attempts[q][Len(attempts[q])].ok

\* The first endpoint answered 429, the second succeeded, and the request went on
\* to its end without the third being called for the infrastructure query.
C18_Witness ==
    /\ Len(attempts.infra) = 2
    /\ attempts.infra[1].status = 429
    /\ attempts.infra[2].ok
    /\ infraData = [elements |-> InfraElements]
    /\ UrlsCalled("infra") = SubSeq(OVERPASS_ENDPOINTS, 1, 2)
    /\ response.status = 200

\* C19: once getLocationStats has settled and the handler has gone on from it
\* (after a match, after the end of the file without a match, after a stream
\* error), the file opened for the row stream is closed.
C19_HandleReleased ==
    (fileHandle # "none" /\ pc # "lookup") => fileHandle = "closed"

\* Whether the exchange of an AQI sub-call ended in a transport or parse error.
TransportOrParseError(ex) == ex.net = "error" \/ ex.json = BadJson

\* C21: getCurrentAQI never propagates a failure: after a transport or parse
\* error or a service status other than ok the current reading is the no-data
\* reading (aqi null, category "No data", no pollutants, null dominant
\* pollutant and time); otherwise its category is categorizeAQI of its aqi, and
\* its aqi is the one the service returned whenever the service returned data.
C21_CurrentAQINeverFails ==
    aqiPc \in {"history", "done"} =>
        LET ex == aqiCalls[1].answer
        IN  IF TransportOrParseError(ex) \/ ex.json.status # "ok"
            THEN current = [ aqi |-> Null, category |-> "No data",
                             pollutants |-> EmptyObject,
                             dominentPollutant |-> Null, time |-> Null ]
            ELSE /\ current.category = categorizeAQI(current.aqi)
                 /\ ex.json.data.type # "undefined" => current.aqi = ex.json.data.aqi

\* The current-AQI fetch threw, the task went on to the history call, and the
\* reading is the no-data reading.
C21_Witness ==
    /\ aqiPc = "history"
    /\ aqiCalls[1].answer = NetworkError
    /\ current.category = "No data"
    /\ Len(aqiCalls) = 2

\* C22: the two AQI sub-calls are independent: the history list of the section
\* is the one the history call's own answer gives, whatever the current-AQI
\* call answered, and the current reading is the one the current-AQI call's own
\* answer gives, whatever the history call answered.
C22_SubCallsIndependent ==
    aqiPc = "done" =>
        /\ Len(aqiCalls) = 2
        /\ airQualityString.history = getAQIHistory(aqiCalls[2].answer)
        /\ airQualityString.currentAQI = getCurrentAQI(aqiCalls[1].answer)

\* The current-AQI call failed and the history has both samples; the history
\* call failed and the current reading has the station's figure.
C22_Witness ==
    /\ aqiPc = "done"
    /\ aqiCalls[1].answer = WaqiOk(Num(151))
    /\ aqiCalls[2].answer = NetworkError
    /\ airQualityString.currentAQI.aqi = Num(151)
    /\ airQualityString.history = <<>>

\* The current-AQI call failed and the history still has both samples.
C22_WitnessHistory ==
    /\ aqiPc = "done"
    /\ aqiCalls[1].outcome = "threw"
    /\ Len(airQualityString.history) = 2

\* C23: getAQIHistory never fails: after a transport error, an unparsable body
\* or a missing hourly series the history is the empty list; otherwise it has
\* one entry per hourly PM2.5 sample, in the provider's order, with that
\* sample's timestamp, its PM2.5 value and categorizeAQI of that value.
C23_HistoryPerSample ==
    aqiPc = "done" =>
        LET ex == aqiCalls[2].answer
            history == airQualityString.history
        IN  IF \/ TransportOrParseError(ex)
               \/ ex.json.hourly.type = "undefined"
               \/ ex.json.hourly.pm2_5.type = "undefined"
            THEN history = <<>>
            ELSE /\ Len(history) = Len(ex.json.hourly.pm2_5.items)
                 /\ \A i \in 1..Len(history) :
                        /\ history[i].timestamp = ex.json.hourly.time.items[i]
                        /\ history[i].pm25 = ex.json.hourly.pm2_5.items[i]
                        /\ history[i].aqi = categorizeAQI(ex.json.hourly.pm2_5.items[i])

\* A history of two samples in different categories, in the provider's order.
C23_Witness ==
    /\ aqiPc = "done"
    /\ Len(airQualityString.history) = 2
    /\ airQualityString.history[1].pm25 = Num(50)
    /\ airQualityString.history[1].aqi = "Good"
    /\ airQualityString.history[2].pm25 = Num(301)
    /\ airQualityString.history[2].aqi = "Hazardous"
    /\ airQualityString.history[1].timestamp = "2026-01-01T00:00"

\* A way that has a name: a name tag that is not the empty string.
NamedWay(el) == Tag(el, "name") \notin {Absent, ""}

\* The raw names of the returned named ways that are rivers (isRiver TRUE) or
\* are not (isRiver FALSE).
WayNames(isRiver) ==
    { Tag(waterData.elements[i], "name") :
        i \in { k \in 1..Len(waterData.elements) :
                  /\ NamedWay(waterData.elements[k])
                  /\ (Tag(waterData.elements[k], "waterway") = "river") = isRiver } }

\* C24: rivers holds exactly the names of the named ways tagged waterway=river
\* and otherWaterBodies exactly the names of every other named way; unnamed
\* ways are in neither; no list holds a name twice (names are compared as they
\* are); each count is the length of its list.
C24_WaterTally ==
    waterBodies # Unset
        => /\ Range(waterBodies.rivers.names) = WayNames(TRUE)
           /\ Range(waterBodies.otherWaterBodies.names) = WayNames(FALSE)
           /\ NoDuplicates(waterBodies.rivers.names)
           /\ NoDuplicates(waterBodies.otherWaterBodies.names)
           /\ waterBodies.rivers.count = Len(waterBodies.rivers.names)
           /\ waterBodies.otherWaterBodies.count = Len(waterBodies.otherWaterBodies.names)

\* A river returned twice, a canal and an unnamed river in one result.
C24_Witness ==
    /\ waterBodies # Unset
    /\ Len(waterData.elements) = 3
    /\ waterData.elements[1] = waterData.elements[2]
    /\ Tag(waterData.elements[3], "waterway") = "canal"
    /\ waterBodies.rivers = [count |-> 1, names |-> <<"Yamuna">>]
    /\ waterBodies.otherWaterBodies = [count |-> 1, names |-> <<"Agra Canal">>]

\* The row the scan stopped at: the first row of the file that matches the query.
FirstMatch(i) ==
    /\ RowMatches(csvFile[i], query)
    /\ \A j \in 1..(i - 1) : ~RowMatches(csvFile[j], query)

\* C30: the population and the area getLocationStats resolves with are numbers
\* (never NaN), and each is 0 when the matched row's field is missing, empty or
\* not a numeral.
C30_StatsAreNumbers ==
    lookupOut.state = "fulfilled"
        => /\ lookupOut.value.population \in Nat
           /\ lookupOut.value.area \in Nat
           /\ \E i \in 1..Len(csvFile) :
                  /\ FirstMatch(i)
                  /\ ~IsNumeral(csvFile[i].Population) => lookupOut.value.population = 0
                  /\ ~IsNumeral(csvFile[i].Area) => lookupOut.value.area = 0

\* The scan matched a row whose columns are missing, and the handler holds the
\* result.
C30_Witness ==
    /\ lookupOut.state = "fulfilled"
    /\ csvFile = <<RowMau, RowMalformed>>
    /\ examined = 2
    /\ locationStats = [ population |-> 0, area |-> 0, matchedOn |-> "state",
                         name |-> sUP ]

\* The scan matched a row whose Population is not a numeral and whose Area is.
C30_WitnessNonNumeric ==
    /\ lookupOut.state = "fulfilled"
    /\ csvFile = <<RowPune>>
    /\ lookupOut.value.population = 0
    /\ lookupOut.value.area = 4

\* The place of a call's step in the handler: geocode 1, weather 2, dataset
\* lookup 3, infrastructure query 4, water-body query 5, Wikipedia 6.
StepOf(call) ==
    CASE call.svc = "nominatim" -> 1
      [] call.svc = "open-meteo" -> 2
      [] call.svc = "dataset" -> 3
      [] call.svc = "overpass" -> IF call.query = "infra" THEN 4 ELSE 5
      [] call.svc = "wikipedia" -> 6

\* The place of the step a failure is recorded for.
StepOfFailure ==
    CASE failed.step = "geocode" -> 1
      [] failed.step = "weather" -> 2
      [] failed.step = "dataset" -> 3
      [] failed.step = "infrastructure" -> 4
      [] failed.step = "water" -> 5
      [] failed.step = "wikipedia" -> 6

\* C27: the calls of a request are issued in the order geocode, weather, dataset
\* lookup, infrastructure, water bodies, Wikipedia, no step before the ones
\* ahead of it; the AQI task is started only once the dataset lookup has
\* succeeded; and once a step has failed there is no call of a later step: no
\* dataset scan and no AQI call after a geocode or weather failure, no AQI call
\* after a dataset failure, no Overpass or Wikipedia call after the failure of
\* a step before them.
C27_StepsInOrder ==
    /\ \A i, j \in 1..Len(calls) : i < j => StepOf(calls[i]) <= StepOf(calls[j])
    /\ calls # <<>>
           => {StepOf(calls[i]) : i \in 1..Len(calls)} = 1..StepOf(calls[Len(calls)])
    /\ aqiCalls # <<>> => (locationStats # Unset /\ \E i \in 1..Len(calls) : StepOf(calls[i]) = 4)
    /\ stream # "none" => \E i \in 1..Len(calls) : StepOf(calls[i]) = 3
    /\ failed # NoFailure
           => /\ \A i \in 1..Len(calls) : StepOf(calls[i]) <= StepOfFailure
              /\ StepOfFailure <= 3 => aqiCalls = <<>>
              /\ StepOfFailure <= 2 => stream = "none"

\* The weather fetch failed: the request is answered and nothing but the
\* geocoding and the weather call was issued.
C27_Witness ==
    /\ failed # NoFailure
    /\ failed.step = "weather"
    /\ pc = "done"
    /\ Len(calls) = 2
    /\ aqiCalls = <<>>
    /\ stream = "none"

\* C28: every request to /api is counted by the limiter before the handler
\* validates it: the step in which a request arrives, whatever it is answered
\* with, raises the count of its client by one, and it is answered 429 exactly
\* when the client had already made RateMax requests in the window.
C28_CountedBeforeValidation ==
    [][ (pc \in {"idle", "done"} /\ <<pc, req, response, calls>>' # <<pc, req, response, calls>>)
          => /\ hits'[req'.ip] = hits[req'.ip] + 1
             /\ (response'.status = 429) <=> (hits[req'.ip] >= RateMax) ]_vars

\* The request that uses up the quota is one without a city, answered 400.
C28_Witness ==
    /\ response.status = 400
    /\ hits[req.ip] = RateMax
    /\ handled[req.ip] = RateMax

\* The endpoints of the list up to the one a log of n calls has reached.
FirstEndpoints(n) == SubSeq(OVERPASS_ENDPOINTS, 1, n)

\* C29: each of the two queries goes through the endpoints from the first one,
\* in list order, whatever endpoints failed during the other query; the
\* water-body query is issued only after the infrastructure query has
\* succeeded, and after it no infrastructure call is issued.
C29_OwnFailover ==
    /\ \A q \in {"infra", "water"} : UrlsCalled(q) = FirstEndpoints(Len(UrlsCalled(q)))
    /\ UrlsCalled("water") # <<>>
           => /\ infraData # Unset
              /\ attempts.infra # <<>>
              /\ attempts.infra[Len(attempts.infra)].ok
              /\ \A i, j \in 1..Len(calls) :
                     (StepOf(calls[i]) = 4 /\ StepOf(calls[j]) = 5) => i < j

\* The first endpoint failed the infrastructure query, the second answered it,
\* and the water-body query went to the first endpoint again and on to the second.
C29_Witness ==
    /\ Len(attempts.infra) = 2
    /\ ~attempts.infra[1].ok
    /\ attempts.infra[2].ok
    /\ Len(attempts.water) = 1
    /\ attempts.water[1].url = OVERPASS_ENDPOINTS[1]
    /\ ~attempts.water[1].ok
    /\ UrlsCalled("water") = FirstEndpoints(2)

\* C26: a request that has passed the limiter is eventually answered 400, 200
\* or 500, and a response, once sent, is never replaced or changed, whatever
\* the AQI task does afterwards.
C26_ExactlyOneResponse ==
    /\ (req # Unset /\ response.status # 429) ~> (response.status \in {400, 200, 500})
    /\ [][response # NoResponse => response' = response]_vars

\* C25: the error state is set only after the retries are exhausted: whenever
\* the page holds an error message, maxRetries retries have been made for the
\* fetch.
C25_ErrorOnlyAfterRetries == error # Null => retryCount >= maxRetries

============================================================================
